---------------------------- MODULE Spec2Model ----------------------------
(***************************************************************************)
(* Multi-broker MQTT subscriber (cmd/server/main.go): the orchestration    *)
(* layer.  main() walks cfg.Brokers, opens each target's output file,      *)
(* builds a client, connects, subscribes and appends the connected         *)
(* BrokerConnection to `connections`; it then waits for a signal and       *)
(* disconnects and closes every connection in order.  Message callbacks    *)
(* (createMessageHandler) run concurrently with main, one or more per      *)
(* session, each under the session's own mutex.                            *)
(*                                                                         *)
(* Target i of the model (1..K) is cfg.Brokers[i-1]; the number printed in *)
(* log lines, brokerIndex+1, is therefore i.                               *)
(*                                                                         *)
(* main waits in token.Wait() after Connect and after each Subscribe: the  *)
(* transport's answer is a step of its own, and callbacks, the OnConnect   *)
(* and OnConnectionLost handlers and a loss of the connection interleave   *)
(* with the wait.  The handlers run on goroutines of the transport.        *)
(*                                                                         *)
(* The transport hands a message that has reached the client to the        *)
(* callback whenever it gets to it: with the connection up, after it is    *)
(* lost, and while Disconnect(250) runs.  Disconnect(250) returns when its *)
(* grace period is over and does not wait for callbacks in progress; the   *)
(* transport starts no callback for the session after it has returned.     *)
(*                                                                         *)
(* Environment: the termination signal is delivered while main waits for   *)
(* it (main.go 174-176).  A signal that arrives before signal.Notify ends  *)
(* the process by the runtime's default action, without a step of this     *)
(* program; such runs are not followed.                                    *)
(*                                                                         *)
(* Spec follows main and the callbacks by position only, on targets with   *)
(* one topic each; SpecTopics is the same program on a target with a       *)
(* longer topic list; SpecStart is Spec from the top of main, the check of *)
(* the broker list included, and SpecLive is SpecStart under fair          *)
(* scheduling.  SpecFiles is the same program started on targets that all  *)
(* name an output file.  SpecSession follows the messages of one session   *)
(* through the handler: what is written to the console and to the file,    *)
(* and in which order.  SpecFormat is formatMessage alone and SpecConfig   *)
(* is config.LoadConfig alone, each applied once to an input drawn from a  *)
(* bounded set.                                                            *)
(***************************************************************************)
EXTENDS Integers, Sequences, FiniteSets, TLC

\* ------------------------------------------------------------------ bounds
MaxTargets == 2      \* longest cfg.Brokers list explored
MaxTopics == 2       \* longest topic list of a target
MaxCallbacks == 2    \* callbacks the transport has in progress at once
MaxMessages == 3     \* messages followed one by one through the handler
MaxEnvBrokers == 3   \* highest n with BROKER_<n>_* variables set
MaxFileBrokers == 2  \* longest "brokers" list of the config file
MaxLosses == 1       \* connections the transport loses in one run

\* ------------------------------------------------------------- input sets
\* Topic filters, told apart by number: a target's list is a run of them.
TopicName(n) == <<"topic", n>>

TopicLists == {[j \in 1..n |-> TopicName(j)] : n \in 1..MaxTopics}

\* A path is the sequence of its components; <<>> is the empty string.
Paths == {<<>>, <<"a.log">>}

\* config.BrokerConfig, the fields main() reads for orchestration.
BrokerConfig == [OutputFile : Paths, Topics : TopicLists]

\* Where a callback in progress can be: blocked on the session's mutex,
\* holding it before the console write, holding it before the file write.
Positions == {"wait", "console", "file"}

NoCallbacks == [p \in Positions |-> 0]

VARIABLES
    brokers,      \* cfg.Brokers
    pc,           \* where main() is
    idx,          \* loop variable i of the startup loop / of the shutdown loop
    tix,          \* position in brokerCfg.Topics of the subscribe loop
    outputFile,   \* broker.OutputFile per target: "nil", "open", "closed"
    outputPath,   \* path the target's file was opened under (<<>>: none)
    status,       \* client per target: "none","disconnected","connected",
                  \*   "lost" (reconnecting), "disconnecting"
    subscribed,   \* topic filters the broker holds for the session
    connections,  \* the running set, a sequence of target indices
    mu,           \* broker.mu per target: TRUE when held
    cb,           \* per session, how many callbacks are at each position
    log,          \* lines written through logger (message lines excluded)
    connectLog,   \* Connect() calls made so far: <<target, outcome>>, the
                  \*   outcome "pending", "ok" or "failed"
    subLog,       \* Subscribe() calls made so far per target
    exit,         \* "none", "fatal" (logger.Fatal), "normal" (main returned)
    token,        \* the token main waits on in token.Wait(): "none",
                  \*   "pending", "ok", "failed"
    handlers,     \* OnConnect / OnConnectionLost calls the transport has
                  \*   started and that have not logged yet: <<kind, target>>
    losses        \* connections lost so far

\* What the callbacks of a session do with the messages handed to them.
VARIABLES
    detailed,     \* logger.IsDetailed()
    delivered,    \* per session, the messages in the order the transport
                  \*   handed them to the callback
    at,           \* per session and message, where its callback is
    console,      \* records written to the console, in order
    written,      \* per session, the WriteString calls on its file, in order
    overlap       \* per session: two of its callbacks were in progress at once

sessionVars == <<detailed, delivered, at, console, written, overlap>>

\* Inputs and results of formatMessage and of config.LoadConfig taken alone.
VARIABLES
    fmtMsg,       \* the message formatMessage is applied to, and the mode
    fmtOut,       \* what formatMessage returned
    env,          \* the process environment LoadConfig reads
    configFile,   \* what CONFIG_FILE holds
    cfg           \* what LoadConfig returned

pureVars == <<fmtMsg, fmtOut, env, configFile, cfg>>

mainVars == <<brokers, pc, idx, tix, outputFile, outputPath, status,
              subscribed, connections, mu, cb, log, connectLog, subLog, exit,
              token, handlers, losses>>

vars == <<mainVars, sessionVars, pureVars>>

\* A value not yet computed / an input a specification does not use.
None == <<>>

K == Len(brokers)
Targets == 1..K

\* ------------------------------------------------------------ path helpers
\* A path is written as its components, the pieces between the separators;
\* an absolute path starts with the component "/".
\* filepath.IsAbs
IsAbs(p) == p # <<>> /\ p[1] = "/"

\* filepath.Clean on the components after the root: empty and "." components
\* go, ".." takes the component before it away (at the root it just goes;
\* at the start of a relative path it stays).
RECURSIVE CleanFrom(_, _, _)
CleanFrom(rest, out, rooted) ==
    IF rest = <<>> THEN out
    ELSE LET c == Head(rest)
             n == Len(out)
         IN  IF c \in {"", "."} THEN CleanFrom(Tail(rest), out, rooted)
             ELSE IF c = ".."
             THEN IF n > 0 /\ out[n] # ".."
                  THEN CleanFrom(Tail(rest), SubSeq(out, 1, n - 1), rooted)
                  ELSE IF rooted THEN CleanFrom(Tail(rest), out, rooted)
                  ELSE CleanFrom(Tail(rest), Append(out, c), rooted)
             ELSE CleanFrom(Tail(rest), Append(out, c), rooted)

\* filepath.Clean: the shortest path naming the same place; "." when nothing
\* is left of a relative path.
Clean(p) ==
    IF IsAbs(p) THEN <<"/">> \o CleanFrom(Tail(p), <<>>, TRUE)
    ELSE IF CleanFrom(p, <<>>, FALSE) = <<>> THEN <<".">>
    ELSE CleanFrom(p, <<>>, FALSE)

\* filepath.Dir: the path without its last component, cleaned.
Dir(p) ==
    IF p = <<>> THEN <<".">>
    ELSE IF p = <<"/">> THEN p
    ELSE Clean(SubSeq(p, 1, Len(p) - 1))

\* filepath.Join: the non-empty elements put together and cleaned.
Join(p, q) == Clean(p \o q)

\* filepath.Dir(p) == "." : the path has no directory component
DirIsDot(p) == Dir(p) = <<".">>

\* Faulty variant of ResolveOutputPath: every configured path is put under
\* logs/, whether or not it names a directory.
ResolveAlwaysUnderLogs(p) == <<"logs">> \o p

\* main.go 103-106: a bare file name goes under logs/
ResolveOutputPath(p) ==
    IF ~IsAbs(p) /\ DirIsDot(p) THEN Join(<<"logs">>, p) ELSE p

\* A line written through logger.Info / logger.Error / logger.Fatal: what it
\* reports, the broker number it prints (0: none) and the topic or the path
\* it names ("": none).
LogLine(kind, n, topic) == <<kind, n, topic>>

\* ------------------------------------------------------------------- Init
\* No message is followed: the callbacks are counted per position only.
NoSessionData ==
    /\ detailed = FALSE
    /\ delivered = [i \in Targets |-> <<>>]
    /\ at = [i \in Targets |-> <<>>]
    /\ console = <<>>
    /\ written = [i \in Targets |-> <<>>]
    /\ overlap = [i \in Targets |-> FALSE]

NoPureData ==
    /\ fmtMsg = None
    /\ fmtOut = None
    /\ env = None
    /\ configFile = None
    /\ cfg = None

\* main.go 72-95: main is about to enter the startup loop.
MainStart ==
    /\ pc = "prepare"
    /\ idx = 1
    /\ tix = 1
    /\ outputFile = [i \in Targets |-> "nil"]
    /\ outputPath = [i \in Targets |-> <<>>]
    /\ status = [i \in Targets |-> "none"]
    /\ subscribed = [i \in Targets |-> {}]
    /\ connections = <<>>
    /\ mu = [i \in Targets |-> FALSE]
    /\ cb = [i \in Targets |-> NoCallbacks]
    /\ log = {}
    /\ connectLog = <<>>
    /\ subLog = [i \in Targets |-> <<>>]
    /\ exit = "none"
    /\ token = "none"
    /\ handlers = {}
    /\ losses = 0

\* main has loaded a configuration of one to MaxTargets brokers, each with or
\* without an output file and with one topic.
Init ==
    /\ \E k \in 1..MaxTargets :
          brokers \in [1..k -> [OutputFile : Paths,
                                Topics : {<<TopicName(1)>>}]]
    /\ MainStart
    /\ NoSessionData
    /\ NoPureData

\* ----------------------------------------------------------- startup loop
\* main.go 162-163 / 150: on to the next target, or out of the loop.
Advance ==
    IF idx < K
    THEN pc' = "prepare" /\ idx' = idx + 1
    ELSE pc' = "check" /\ idx' = idx

\* main.go 103-106: the path the target's file is opened under.
PathOf(i) == ResolveOutputPath(brokers[i].OutputFile)

\* main.go 112 and 118: the two error lines name the directory and the path,
\* not the broker.
MkdirFailedLine(i) == LogLine("mkdir_failed", 0, Dir(PathOf(i)))

OpenFailedLine(i) == LogLine("open_failed", 0, PathOf(i))

\* main.go 109-114: MkdirAll is called unless the directory is "." or empty;
\* its error is logged and nothing else follows from it.
MkdirAll(i, mkdirOk) ==
    IF Dir(PathOf(i)) \in {<<".">>, <<>>} \/ mkdirOk THEN {}
    ELSE {MkdirFailedLine(i)}

\* main.go 116-122, err == nil: the session gets its file.
OpenSucceeded(i, mkdirOk) ==
    /\ log' = log \cup MkdirAll(i, mkdirOk)
                  \cup {LogLine("logging_to_file", i, PathOf(i))}
    /\ outputFile' = [outputFile EXCEPT ![i] = "open"]
    /\ outputPath' = [outputPath EXCEPT ![i] = PathOf(i)]
    /\ pc' = "connect"
    /\ idx' = idx

\* Faulty variant of OpenFailed: a target whose file cannot be opened is
\* given up (continue) instead of running console-only.
OpenFailedSkipsTarget(i, mkdirOk) ==
    /\ log' = log \cup MkdirAll(i, mkdirOk) \cup {OpenFailedLine(i)}
    /\ UNCHANGED <<outputFile, outputPath>>
    /\ Advance

\* main.go 116-119, err != nil: the error is logged and broker.OutputFile
\* stays nil; main goes on to build the client.
OpenFailed(i, mkdirOk) ==
    /\ log' = log \cup MkdirAll(i, mkdirOk) \cup {OpenFailedLine(i)}
    /\ UNCHANGED <<outputFile, outputPath>>
    /\ pc' = "connect"
    /\ idx' = idx

\* main.go 95-141: build the BrokerConnection, open its file when one is
\* configured, build the client.  OpenFile (116) is called whatever MkdirAll
\* returned, and either call can fail or succeed on its own: the directory
\* can be there, or appear, although MkdirAll reported an error.
Prepare ==
    /\ pc = "prepare"
    /\ status' = [status EXCEPT ![idx] = "disconnected"]
    /\ IF brokers[idx].OutputFile = <<>>
       THEN /\ pc' = "connect"
            /\ UNCHANGED <<idx, outputFile, outputPath, log>>
       ELSE \E mkdirOk \in BOOLEAN, openOk \in BOOLEAN :
              IF openOk THEN OpenSucceeded(idx, mkdirOk)
              ELSE OpenFailed(idx, mkdirOk)
    /\ UNCHANGED <<sessionVars, pureVars>>
    /\ UNCHANGED <<brokers, tix, subscribed, connections, mu, cb,
                   connectLog, subLog, exit, token, handlers, losses>>

\* main.go 144-145: the "Connecting" line and broker.Client.Connect(); main
\* then waits in token.Wait().
Connect ==
    /\ pc = "connect"
    /\ log' = log \cup {LogLine("connecting", idx, "")}
    /\ connectLog' = Append(connectLog, <<idx, "pending">>)
    /\ token' = "pending"
    /\ pc' = "connect_wait"
    /\ UNCHANGED <<sessionVars, pureVars>>
    /\ UNCHANGED <<brokers, idx, tix, outputFile, outputPath, status,
                   subscribed, connections, mu, cb, subLog, exit, handlers,
                   losses>>

\* The transport completes the connect while main waits: the connection is
\* up and the transport starts the OnConnect handler (main.go 130) on a
\* goroutine of its own, or the connect has failed (the client gives up an
\* unanswered connect after its connect timeout).
ConnectAnswered ==
    /\ exit = "none"
    /\ pc = "connect_wait"
    /\ token = "pending"
    /\ \E ok \in BOOLEAN :
         /\ token' = IF ok THEN "ok" ELSE "failed"
         /\ connectLog' = [connectLog EXCEPT
                              ![Len(connectLog)] = <<idx, token'>>]
         /\ status' = [status EXCEPT ![idx] = IF ok THEN "connected" ELSE @]
         /\ handlers' = IF ok THEN handlers \cup {<<"connect", idx>>}
                        ELSE handlers
    /\ UNCHANGED <<sessionVars, pureVars>>
    /\ UNCHANGED <<brokers, pc, idx, tix, outputFile, outputPath, subscribed,
                   connections, mu, cb, log, subLog, exit, losses>>

\* main.go 145, token.Error() == nil: on to the subscribe loop.
ConnectSucceeded(i) ==
    /\ pc' = "subscribe"
    /\ tix' = 1
    /\ UNCHANGED <<idx, outputFile, log>>

\* Faulty variant of ConnectFailed: the `continue` is missing, so a target
\* that failed to connect goes on to subscribe and is appended.
ConnectFailedFallsThrough(i) ==
    /\ log' = log \cup {LogLine("connect_failed", i, "")}
    /\ outputFile' = [outputFile EXCEPT
                        ![i] = IF @ # "nil" THEN "closed" ELSE @]
    /\ pc' = "subscribe"
    /\ tix' = 1
    /\ idx' = idx

\* Faulty variant of ConnectFailed: `break` instead of `continue`, so the first
\* connect failure ends the startup loop.
ConnectFailedBreaks(i) ==
    /\ log' = log \cup {LogLine("connect_failed", i, "")}
    /\ outputFile' = [outputFile EXCEPT
                        ![i] = IF @ # "nil" THEN "closed" ELSE @]
    /\ pc' = "check"
    /\ UNCHANGED <<idx, tix>>

\* Faulty variant of ConnectFailed: the failed target is tried again from the
\* top of the loop body, which builds a second client and reopens the file.
ConnectFailedRetries(i) ==
    /\ log' = log \cup {LogLine("connect_failed", i, "")}
    /\ outputFile' = [outputFile EXCEPT
                        ![i] = IF @ # "nil" THEN "closed" ELSE @]
    /\ pc' = "prepare"
    /\ UNCHANGED <<idx, tix>>

\* main.go 145-151: log the failure, close the file, continue.
ConnectFailed(i) ==
    /\ log' = log \cup {LogLine("connect_failed", i, "")}
    /\ outputFile' = [outputFile EXCEPT
                        ![i] = IF @ # "nil" THEN "closed" ELSE @]
    /\ Advance
    /\ tix' = tix

\* main.go 145-154: token.Wait() returns and main looks at token.Error().
ConnectReturns ==
    /\ pc = "connect_wait"
    /\ token \in {"ok", "failed"}
    /\ token' = "none"
    /\ IF token = "ok" THEN ConnectSucceeded(idx) ELSE ConnectFailed(idx)
    /\ UNCHANGED <<sessionVars, pureVars>>
    /\ UNCHANGED <<brokers, outputPath, status, subscribed, connections, mu,
                   cb, connectLog, subLog, exit, handlers, losses>>

\* Faulty variant of NextTopic: a failed subscribe ends the subscribe loop.
NextTopicStopsOnFailure(i, ok) ==
    IF ok /\ tix < Len(brokers[i].Topics)
    THEN tix' = tix + 1 /\ pc' = "subscribe"
    ELSE tix' = tix /\ pc' = "append"

\* main.go 154-160: whatever the subscribe returned, the range loop moves to
\* the next topic or ends.
NextTopic(i, ok) ==
    IF tix < Len(brokers[i].Topics)
    THEN tix' = tix + 1 /\ pc' = "subscribe"
    ELSE tix' = tix /\ pc' = "append"

\* main.go 155: broker.Client.Subscribe(topic, 0, nil); main then waits in
\* token.Wait().  On a client that has lost its connection the token comes
\* back with an error at once.
Subscribe ==
    /\ pc = "subscribe"
    /\ subLog' = [subLog EXCEPT
                     ![idx] = Append(@, brokers[idx].Topics[tix])]
    /\ token' = IF status[idx] = "connected" THEN "pending" ELSE "failed"
    /\ pc' = "subscribe_wait"
    /\ UNCHANGED <<sessionVars, pureVars>>
    /\ UNCHANGED <<brokers, idx, tix, outputFile, outputPath, status,
                   subscribed, connections, mu, cb, log, connectLog, exit,
                   handlers, losses>>

\* The broker answers the subscribe while main waits: the subscription is
\* granted, and messages of the topic can be delivered from here on, or it
\* is refused.  Nothing bounds the time a broker takes to answer.
SubscribeAnswered ==
    /\ exit = "none"
    /\ pc = "subscribe_wait"
    /\ token = "pending"
    /\ \E ok \in (IF status[idx] = "connected" THEN BOOLEAN ELSE {FALSE}) :
         /\ token' = IF ok THEN "ok" ELSE "failed"
         /\ subscribed' =
               [subscribed EXCEPT
                  ![idx] = IF ok THEN @ \cup {brokers[idx].Topics[tix]}
                           ELSE @]
    /\ UNCHANGED <<sessionVars, pureVars>>
    /\ UNCHANGED <<brokers, pc, idx, tix, outputFile, outputPath, status,
                   connections, mu, cb, log, connectLog, subLog, exit,
                   handlers, losses>>

\* main.go 155-159: token.Wait() returns; the outcome is logged and the loop
\* goes on.
SubscribeReturns ==
    /\ pc = "subscribe_wait"
    /\ token \in {"ok", "failed"}
    /\ token' = "none"
    /\ log' = log \cup {LogLine(IF token = "ok" THEN "subscribed"
                                ELSE "subscribe_failed",
                                idx, brokers[idx].Topics[tix])}
    /\ NextTopic(idx, token = "ok")
    /\ UNCHANGED <<sessionVars, pureVars>>
    /\ UNCHANGED <<brokers, idx, outputFile, outputPath, status, subscribed,
                   connections, mu, cb, connectLog, subLog, exit, handlers,
                   losses>>

\* main.go 162: connections = append(connections, broker)
AppendConnection ==
    /\ pc = "append"
    /\ connections' = Append(connections, idx)
    /\ Advance
    /\ UNCHANGED <<sessionVars, pureVars>>
    /\ UNCHANGED <<brokers, tix, outputFile, outputPath, status, subscribed,
                   mu, cb, log, connectLog, subLog, exit, token, handlers,
                   losses>>

\* Faulty variant of NoConnections: the empty running set is not detected.
NoConnectionsNever == FALSE

\* main.go 165: len(connections) == 0
NoConnections == Len(connections) = 0

\* main.go 165-171: logger.Fatal (os.Exit) with no connection, else listen.
CheckConnections ==
    /\ pc = "check"
    /\ IF NoConnections
       THEN /\ log' = log \cup {LogLine("fatal_no_connections", 0, "")}
            /\ exit' = "fatal"
            /\ pc' = "stopped"
       ELSE /\ log' = log \cup {LogLine("listening", Len(connections), "")}
            /\ exit' = exit
            /\ pc' = "running"
    /\ UNCHANGED <<sessionVars, pureVars>>
    /\ UNCHANGED <<brokers, idx, tix, outputFile, outputPath, status,
                   subscribed, connections, mu, cb, connectLog, subLog,
                   token, handlers, losses>>

\* ---------------------------------------------------------------- shutdown
\* main.go 173-178: the signal arrives; main logs and enters the loop.
Signal ==
    /\ pc = "running"
    /\ log' = log \cup {LogLine("shutting_down", 0, "")}
    /\ idx' = 1
    /\ pc' = IF Len(connections) = 0 THEN "return" ELSE "sd_check"
    /\ UNCHANGED <<sessionVars, pureVars>>
    /\ UNCHANGED <<brokers, tix, outputFile, outputPath, status, subscribed,
                   connections, mu, cb, connectLog, subLog, exit, token,
                   handlers, losses>>

\* Faulty variant of ShutdownTarget: the shutdown loop walks connections
\* backwards.
ShutdownTargetReversed == connections[Len(connections) + 1 - idx]

\* main.go 181: the connection the shutdown loop is at.
ShutdownTarget == connections[idx]

\* Faulty variant of IsConnected: only an established connection counts.
IsConnectedOnlyWhenUp(i) == status[i] = "connected"

\* main.go 182 with 133: under SetAutoReconnect(true) IsConnected() reports
\* true for a connected client and for one that is reconnecting.
IsConnected(i) == status[i] \in {"connected", "lost"}

\* main.go 182-183: the check, and Disconnect(250) is entered.
ShutdownCheck ==
    /\ pc = "sd_check"
    /\ LET b == ShutdownTarget
       IN  IF status[b] # "none" /\ IsConnected(b)
           THEN /\ status' = [status EXCEPT ![b] = "disconnecting"]
                /\ pc' = "sd_disc"
           ELSE /\ status' = status
                /\ pc' = "sd_close"
    /\ UNCHANGED <<sessionVars, pureVars>>
    /\ UNCHANGED <<brokers, idx, tix, outputFile, outputPath, subscribed,
                   connections, mu, cb, log, connectLog, subLog, exit,
                   token, handlers, losses>>

\* main.go 183: Disconnect(250) returns when the grace period of 250 ms is
\* over at the latest.  Nothing in main waits for the session's callbacks:
\* one that is in progress goes on after the call has returned.
DisconnectReturns(b) ==
    /\ status' = [status EXCEPT ![b] = "disconnected"]
    /\ subscribed' = [subscribed EXCEPT ![b] = {}]

\* main.go 183-184: Disconnect(250) returns; "Broker %d disconnected" is
\* logged with the position in connections.
ShutdownDisconnect ==
    /\ pc = "sd_disc"
    /\ DisconnectReturns(ShutdownTarget)
    /\ log' = log \cup {LogLine("disconnected", idx, "")}
    /\ pc' = "sd_close"
    /\ UNCHANGED <<sessionVars, pureVars>>
    /\ UNCHANGED <<brokers, idx, tix, outputFile, outputPath, connections,
                   mu, cb, connectLog, subLog, exit, token, handlers, losses>>

\* Faulty variant of CloseOutputFile: the Close call is missing.
CloseOutputFileSkipped(b) == outputFile' = outputFile

\* main.go 186-188: close the session's file when it has one.
CloseOutputFile(b) ==
    outputFile' = [outputFile EXCEPT ![b] = IF @ # "nil" THEN "closed" ELSE @]

\* main.go 186-189: close the file; next connection, or the loop is over.
ShutdownClose ==
    /\ pc = "sd_close"
    /\ CloseOutputFile(ShutdownTarget)
    /\ IF idx < Len(connections)
       THEN idx' = idx + 1 /\ pc' = "sd_check"
       ELSE idx' = idx /\ pc' = "return"
    /\ UNCHANGED <<sessionVars, pureVars>>
    /\ UNCHANGED <<brokers, tix, outputPath, status, subscribed, connections,
                   mu, cb, log, connectLog, subLog, exit, token, handlers,
                   losses>>

\* main.go 190 and 77-79: main returns, the deferred logger.Sync() runs and
\* the process ends.  The goroutines of the transport run until then.
MainReturns ==
    /\ pc = "return"
    /\ pc' = "stopped"
    /\ exit' = "normal"
    /\ UNCHANGED <<sessionVars, pureVars>>
    /\ UNCHANGED <<brokers, idx, tix, outputFile, outputPath, status,
                   subscribed, connections, mu, cb, log, connectLog, subLog,
                   token, handlers, losses>>

\* --------------------------------------------------------------- transport
\* The connection of a session drops: the client goes on to reconnect and the
\* transport starts the OnConnectionLost handler (main.go 131) on a goroutine
\* of its own.
ConnectionLost(i) ==
    /\ exit = "none"
    /\ status[i] = "connected"
    /\ status' = [status EXCEPT ![i] = "lost"]
    /\ losses < MaxLosses
    /\ losses' = losses + 1
    /\ handlers' = handlers \cup {<<"lost", i>>}
    /\ UNCHANGED <<sessionVars, pureVars>>
    /\ UNCHANGED <<brokers, pc, idx, tix, outputFile, outputPath, subscribed,
                   connections, mu, cb, log, connectLog, subLog, exit, token>>

\* The transport reconnects by itself (main.go 133) and starts the OnConnect
\* handler.  With SetCleanSession(true) (134) the broker has dropped the
\* session's subscriptions and nothing issues them again.
Reconnect(i) ==
    /\ exit = "none"
    /\ status[i] = "lost"
    /\ status' = [status EXCEPT ![i] = "connected"]
    /\ subscribed' = [subscribed EXCEPT ![i] = {}]
    /\ handlers' = handlers \cup {<<"connect", i>>}
    /\ UNCHANGED <<sessionVars, pureVars>>
    /\ UNCHANGED <<brokers, pc, idx, tix, outputFile, outputPath, connections,
                   mu, cb, log, connectLog, subLog, exit, token, losses>>

\* main.go 192-197: the OnConnect handler logs "Connected".
createConnectHandler(i) ==
    /\ exit = "none"
    /\ <<"connect", i>> \in handlers
    /\ handlers' = handlers \ {<<"connect", i>>}
    /\ log' = log \cup {LogLine("connected", i, "")}
    /\ UNCHANGED <<sessionVars, pureVars>>
    /\ UNCHANGED <<brokers, pc, idx, tix, outputFile, outputPath, status,
                   subscribed, connections, mu, cb, connectLog, subLog, exit,
                   token, losses>>

\* Faulty variant of createConnectionLostHandler: a lost connection ends the
\* process.
ConnectionLostExits(i) ==
    /\ exit = "none"
    /\ <<"lost", i>> \in handlers
    /\ handlers' = handlers \ {<<"lost", i>>}
    /\ log' = log \cup {LogLine("connection_lost", i, "")}
    /\ pc' = "stopped"
    /\ exit' = "fatal"
    /\ UNCHANGED <<sessionVars, pureVars>>
    /\ UNCHANGED <<brokers, idx, tix, outputFile, outputPath, status,
                   subscribed, connections, mu, cb, connectLog, subLog, token,
                   losses>>

\* Faulty variant of createConnectionLostHandler: the handler calls Connect
\* again itself.
ConnectionLostRetries(i) ==
    /\ exit = "none"
    /\ <<"lost", i>> \in handlers
    /\ handlers' = handlers \ {<<"lost", i>>}
    /\ log' = log \cup {LogLine("connection_lost", i, "")}
    /\ connectLog' = Append(connectLog, <<i, "failed">>)
    /\ UNCHANGED <<sessionVars, pureVars>>
    /\ UNCHANGED <<brokers, pc, idx, tix, outputFile, outputPath, status,
                   subscribed, connections, mu, cb, subLog, exit, token,
                   losses>>

\* main.go 199-204: the OnConnectionLost handler logs "Connection lost".
createConnectionLostHandler(i) ==
    /\ exit = "none"
    /\ <<"lost", i>> \in handlers
    /\ handlers' = handlers \ {<<"lost", i>>}
    /\ log' = log \cup {LogLine("connection_lost", i, "")}
    /\ UNCHANGED <<sessionVars, pureVars>>
    /\ UNCHANGED <<brokers, pc, idx, tix, outputFile, outputPath, status,
                   subscribed, connections, mu, cb, connectLog, subLog, exit,
                   token, losses>>

\* ---------------------------------------------------------------- callback
\* Callbacks in progress over all sessions.
RECURSIVE InProgressUpTo(_)
InProgressUpTo(n) ==
    IF n = 0 THEN 0
    ELSE InProgressUpTo(n - 1) + cb[n].wait + cb[n].console + cb[n].file

InProgress == InProgressUpTo(K)

\* The broker has held a subscription of session i, so messages for it can
\* have reached the client: a subscription is held now, or a subscribe of the
\* session was acknowledged earlier.
Arrived(i) ==
    \/ subscribed[i] # {}
    \/ \E n \in DOMAIN brokers[i].Topics :
          LogLine("subscribed", i, brokers[i].Topics[n]) \in log

\* main.go 32: the transport invokes the handler with a message that has
\* reached the client.  A message in flight is handed over whenever the
\* transport gets to it: with the connection up, after it was lost, and
\* after Disconnect(250) has been entered; once Disconnect has returned the
\* transport starts no callback for the session.
Deliver(i) ==
    /\ exit = "none"
    /\ status[i] \in {"connected", "lost", "disconnecting"}
    /\ Arrived(i)
    /\ InProgress < MaxCallbacks
    /\ cb' = [cb EXCEPT ![i].wait = @ + 1]
    /\ UNCHANGED pureVars
    /\ UNCHANGED <<brokers, pc, idx, tix, outputFile, outputPath, status,
                   subscribed, connections, mu, log, connectLog, subLog, exit,
                   token, handlers, losses>>

\* Faulty variant of TryLock: the handler does not take the mutex.
TryLockAlways(i) == TRUE

\* main.go 33: broker.mu.Lock() goes through when the mutex is free.
TryLock(i) == ~mu[i]

\* main.go 33-37: take the session's mutex, build the tag, format the message.
HandlerLock(i) ==
    /\ exit = "none"
    /\ cb[i].wait > 0
    /\ TryLock(i)
    /\ mu' = [mu EXCEPT ![i] = TRUE]
    /\ cb' = [cb EXCEPT ![i].wait = @ - 1, ![i].console = @ + 1]
    /\ UNCHANGED pureVars
    /\ UNCHANGED <<brokers, pc, idx, tix, outputFile, outputPath, status,
                   subscribed, connections, log, connectLog, subLog, exit,
                   token, handlers, losses>>

\* main.go 40-43 (and 34 when there is no file): the console line is written;
\* without a file the handler returns and the deferred Unlock runs.
HandlerConsole(i) ==
    /\ exit = "none"
    /\ cb[i].console > 0
    /\ IF outputFile[i] # "nil"
       THEN /\ cb' = [cb EXCEPT ![i].console = @ - 1, ![i].file = @ + 1]
            /\ mu' = mu
       ELSE /\ cb' = [cb EXCEPT ![i].console = @ - 1]
            /\ mu' = [mu EXCEPT ![i] = FALSE]
    /\ UNCHANGED pureVars
    /\ UNCHANGED <<brokers, pc, idx, tix, outputFile, outputPath, status,
                   subscribed, connections, log, connectLog, subLog, exit,
                   token, handlers, losses>>

\* main.go 44-49 and 34: WriteString, Sync, return, deferred Unlock.
HandlerFile(i) ==
    /\ exit = "none"
    /\ cb[i].file > 0
    /\ cb' = [cb EXCEPT ![i].file = @ - 1]
    /\ mu' = [mu EXCEPT ![i] = FALSE]
    /\ UNCHANGED pureVars
    /\ UNCHANGED <<brokers, pc, idx, tix, outputFile, outputPath, status,
                   subscribed, connections, log, connectLog, subLog, exit,
                   token, handlers, losses>>

\* -------------------------------------------------------------------- Next
Next ==
    \/ Prepare
    \/ Connect
    \/ ConnectAnswered
    \/ ConnectReturns
    \/ Subscribe
    \/ SubscribeAnswered
    \/ SubscribeReturns
    \/ AppendConnection
    \/ CheckConnections
    \/ Signal
    \/ ShutdownCheck
    \/ ShutdownDisconnect
    \/ ShutdownClose
    \/ MainReturns
    \/ \E i \in Targets : ConnectionLost(i)
    \/ \E i \in Targets : Reconnect(i)
    \/ \E i \in Targets : createConnectHandler(i)
    \/ \E i \in Targets : createConnectionLostHandler(i)
    \/ \E i \in Targets : Deliver(i) /\ UNCHANGED sessionVars
    \/ \E i \in Targets : HandlerLock(i) /\ UNCHANGED sessionVars
    \/ \E i \in Targets : HandlerConsole(i) /\ UNCHANGED sessionVars
    \/ \E i \in Targets : HandlerFile(i) /\ UNCHANGED sessionVars

Spec == Init /\ [][Next]_vars

\* ------------------------------------------------- targets with topic lists
\* The first target has a topic list of any length up to MaxTopics; the
\* targets after it, if any, have one topic.
InitTopics ==
    /\ \E k \in 1..MaxTargets :
          brokers \in {b \in [1..k -> BrokerConfig] :
                          \A i \in 2..k : Len(b[i].Topics) = 1}
    /\ MainStart
    /\ NoSessionData
    /\ NoPureData

SpecTopics == InitTopics /\ [][Next]_vars

\* ------------------------------------------------------- main from line 72
\* Faulty variant of NoBrokers: an empty broker list is let through.
NoBrokersNever == FALSE

\* main.go 88: len(cfg.Brokers) == 0
NoBrokers == K = 0

\* main.go 72-93: the configuration is loaded, the banner is logged, and with
\* no broker configured logger.Fatal ends the process; otherwise main goes
\* on to the startup loop, which a `range` over no broker leaves at once.
CheckBrokers ==
    /\ pc = "start"
    /\ IF NoBrokers
       THEN /\ log' = log \cup {LogLine("configured", K, ""),
                                LogLine("fatal_no_brokers", 0, "")}
            /\ exit' = "fatal"
            /\ pc' = "stopped"
       ELSE /\ log' = log \cup {LogLine("configured", K, "")}
            /\ exit' = exit
            /\ pc' = IF K = 0 THEN "check" ELSE "prepare"
    /\ UNCHANGED <<sessionVars, pureVars>>
    /\ UNCHANGED <<brokers, idx, tix, outputFile, outputPath, status,
                   subscribed, connections, mu, cb, connectLog, subLog,
                   token, handlers, losses>>

\* main is entered with a broker list of any length, the empty one included
\* (config.LoadConfig itself never returns it); every broker has one topic.
InitStart ==
    /\ \E k \in 0..MaxTargets :
          brokers \in [1..k -> [OutputFile : Paths,
                                Topics : {<<TopicName(1)>>}]]
    /\ pc = "start"
    /\ idx = 1
    /\ tix = 1
    /\ outputFile = [i \in Targets |-> "nil"]
    /\ outputPath = [i \in Targets |-> <<>>]
    /\ status = [i \in Targets |-> "none"]
    /\ subscribed = [i \in Targets |-> {}]
    /\ connections = <<>>
    /\ mu = [i \in Targets |-> FALSE]
    /\ cb = [i \in Targets |-> NoCallbacks]
    /\ log = {}
    /\ connectLog = <<>>
    /\ subLog = [i \in Targets |-> <<>>]
    /\ exit = "none"
    /\ token = "none"
    /\ handlers = {}
    /\ losses = 0
    /\ NoSessionData
    /\ NoPureData

NextStart == CheckBrokers \/ Next

SpecStart == InitStart /\ [][NextStart]_vars

\* --------------------------------------------------- main under fair steps
\* The steps of the main goroutine; the signal is the environment's.
MainStep ==
    \/ CheckBrokers
    \/ Prepare
    \/ Connect
    \/ ConnectReturns
    \/ Subscribe
    \/ SubscribeReturns
    \/ AppendConnection
    \/ CheckConnections
    \/ ShutdownCheck
    \/ ShutdownDisconnect
    \/ ShutdownClose
    \/ MainReturns

\* The steps of the message handler goroutines of session i.
HandlerStep(i) ==
    /\ i \in Targets
    /\ HandlerLock(i) \/ HandlerConsole(i) \/ HandlerFile(i)
    /\ UNCHANGED sessionVars

\* The Go scheduler runs every goroutine that can run: main and the handlers
\* take their next step when one is possible.  The client ends a connect by
\* its connect timeout at the latest; token.Wait() at main.go 155 has no
\* timeout and nothing makes a broker answer a subscribe, so the answer to a
\* subscribe is not a step that has to happen.
Fairness ==
    /\ WF_vars(MainStep)
    /\ WF_vars(ConnectAnswered)
    /\ \A i \in 1..MaxTargets : WF_vars(HandlerStep(i))

SpecLive == InitStart /\ [][NextStart]_vars /\ Fairness

\* ------------------------------------------------------------ formatMessage
\* A string is the sequence of its bytes, each written as the one-character
\* string of its ASCII character.  The envelope sign U+1F4E9 that the format
\* strings start with is written as one element.
Envelope == "U+1F4E9"

\* The 256 bytes in byte order (the order Go compares and sorts strings in):
\* a printable ASCII byte is written as its character, tab, line feed, form
\* feed and carriage return by their escapes, every other byte (and the
\* grave accent, 0x60) by its value.
Bytes ==
    <<"0x00", "0x01", "0x02", "0x03", "0x04", "0x05", "0x06", "0x07",
      "0x08", "\t", "\n", "0x0B", "\f", "\r", "0x0E", "0x0F",
      "0x10", "0x11", "0x12", "0x13", "0x14", "0x15", "0x16", "0x17",
      "0x18", "0x19", "0x1A", "0x1B", "0x1C", "0x1D", "0x1E", "0x1F",
      " ", "!", "\"", "#", "$", "%", "&", "'",
      "(", ")", "*", "+", ",", "-", ".", "/",
      "0", "1", "2", "3", "4", "5", "6", "7",
      "8", "9", ":", ";", "<", "=", ">", "?",
      "@", "A", "B", "C", "D", "E", "F", "G",
      "H", "I", "J", "K", "L", "M", "N", "O",
      "P", "Q", "R", "S", "T", "U", "V", "W",
      "X", "Y", "Z", "[", "\\", "]", "^", "_",
      "0x60", "a", "b", "c", "d", "e", "f", "g",
      "h", "i", "j", "k", "l", "m", "n", "o",
      "p", "q", "r", "s", "t", "u", "v", "w",
      "x", "y", "z", "{", "|", "}", "~", "0x7F",
      "0x80", "0x81", "0x82", "0x83", "0x84", "0x85", "0x86", "0x87",
      "0x88", "0x89", "0x8A", "0x8B", "0x8C", "0x8D", "0x8E", "0x8F",
      "0x90", "0x91", "0x92", "0x93", "0x94", "0x95", "0x96", "0x97",
      "0x98", "0x99", "0x9A", "0x9B", "0x9C", "0x9D", "0x9E", "0x9F",
      "0xA0", "0xA1", "0xA2", "0xA3", "0xA4", "0xA5", "0xA6", "0xA7",
      "0xA8", "0xA9", "0xAA", "0xAB", "0xAC", "0xAD", "0xAE", "0xAF",
      "0xB0", "0xB1", "0xB2", "0xB3", "0xB4", "0xB5", "0xB6", "0xB7",
      "0xB8", "0xB9", "0xBA", "0xBB", "0xBC", "0xBD", "0xBE", "0xBF",
      "0xC0", "0xC1", "0xC2", "0xC3", "0xC4", "0xC5", "0xC6", "0xC7",
      "0xC8", "0xC9", "0xCA", "0xCB", "0xCC", "0xCD", "0xCE", "0xCF",
      "0xD0", "0xD1", "0xD2", "0xD3", "0xD4", "0xD5", "0xD6", "0xD7",
      "0xD8", "0xD9", "0xDA", "0xDB", "0xDC", "0xDD", "0xDE", "0xDF",
      "0xE0", "0xE1", "0xE2", "0xE3", "0xE4", "0xE5", "0xE6", "0xE7",
      "0xE8", "0xE9", "0xEA", "0xEB", "0xEC", "0xED", "0xEE", "0xEF",
      "0xF0", "0xF1", "0xF2", "0xF3", "0xF4", "0xF5", "0xF6", "0xF7",
      "0xF8", "0xF9", "0xFA", "0xFB", "0xFC", "0xFD", "0xFE", "0xFF">>

ByteValue(c) == CHOOSE n \in 0..255 : Bytes[n + 1] = c

AllBytes == {Bytes[n] : n \in DOMAIN Bytes}

ControlBytes == {Bytes[n] : n \in 1..32}

HighBytes == {Bytes[n] : n \in 129..256}

Digits == <<"0", "1", "2", "3", "4", "5", "6", "7", "8", "9">>

IsDigit(c) == \E n \in DOMAIN Digits : Digits[n] = c

DigitValue(c) == (CHOOSE n \in DOMAIN Digits : Digits[n] = c) - 1

\* The hex digits, as the encoder writes them and in upper case.
Hex == Digits \o <<"a", "b", "c", "d", "e", "f">>

HexUpper == Digits \o <<"A", "B", "C", "D", "E", "F">>

IsHex(c) == \E n \in DOMAIN Hex : c \in {Hex[n], HexUpper[n]}

HexValue(c) == (CHOOSE n \in DOMAIN Hex : c \in {Hex[n], HexUpper[n]}) - 1

\* fmt's %d of a non-negative int.
RECURSIVE Decimal(_)
Decimal(n) ==
    IF n < 10 THEN <<Digits[n + 1]>>
    ELSE Decimal(n \div 10) \o <<Digits[(n % 10) + 1]>>

\* Strict order of two strings, byte by byte.
RECURSIVE StrLess(_, _)
StrLess(a, b) ==
    IF a = <<>> THEN b # <<>>
    ELSE IF b = <<>> THEN FALSE
    ELSE IF a[1] = b[1] THEN StrLess(Tail(a), Tail(b))
    ELSE ByteValue(a[1]) < ByteValue(b[1])

\* --- whole numbers of any size, for the arithmetic of strconv: the limbs of
\* a number in base Base, lowest first, no zero limb at the top; <<>> is 0.
Base == 10000

Limb(a, i) == IF i \in DOMAIN a THEN a[i] ELSE 0

\* The limbs without the zero limbs at the top.
BigTrim(a) ==
    IF \A i \in DOMAIN a : a[i] = 0 THEN <<>>
    ELSE SubSeq(a, 1, CHOOSE i \in DOMAIN a :
                         a[i] # 0 /\ \A j \in (i + 1)..Len(a) : a[j] = 0)

\* a < b: below it at the highest limb in which they differ.
BigLess(a, b) ==
    IF Len(a) # Len(b) THEN Len(a) < Len(b)
    ELSE \E j \in DOMAIN a :
            a[j] < b[j] /\ \A k \in (j + 1)..Len(a) : a[k] = b[k]

\* a + b + carry, for carry 0 or 1: limb i of the limb sums takes a carry
\* when the nearest place below i whose sum is not Base - 1 has Base or
\* more, or when there is no such place and a carry comes in.
BigAdd(a, b, carry) ==
    LET CarryIn(sum, i) ==
            IF \/ \E j \in 1..(i - 1) :
                     /\ sum[j] >= Base
                     /\ \A k \in (j + 1)..(i - 1) : sum[k] = Base - 1
               \/ carry = 1 /\ \A k \in 1..(i - 1) : sum[k] = Base - 1
            THEN 1 ELSE 0
        Carried(sum) ==
            BigTrim([i \in DOMAIN sum |-> (sum[i] + CarryIn(sum, i)) % Base])
    IN  IF b = <<>> /\ carry = 0 THEN a
        ELSE IF a = <<>> /\ carry = 0 THEN b
        ELSE Carried([i \in 1..((IF Len(a) > Len(b) THEN Len(a) ELSE Len(b))
                                + 1) |-> Limb(a, i) + Limb(b, i)])

\* a - b, for a >= b: limb i lends when a is below b at the nearest place
\* below i in which they differ.
BigSub(a, b) ==
    LET Borrow(i) ==
            IF \E j \in 1..(i - 1) :
                  /\ Limb(a, j) < Limb(b, j)
                  /\ \A k \in (j + 1)..(i - 1) : Limb(a, k) = Limb(b, k)
            THEN 1 ELSE 0
    IN  IF a = <<>> \/ b = <<>> THEN a
        ELSE BigTrim([i \in DOMAIN a |->
                         (a[i] + Base - Limb(b, i) - Borrow(i)) % Base])

\* a * c, for 0 <= c < Base: the low halves of the limb products plus their
\* high halves one place up.
BigMulSmall(a, c) ==
    IF a = <<>> \/ c = 0 THEN <<>>
    ELSE
    BigAdd(BigTrim([i \in DOMAIN a |-> (a[i] * c) % Base]),
           BigTrim(<<0>> \o [i \in DOMAIN a |-> (a[i] * c) \div Base]), 0)

\* a * 2^n: by 2^104 while n is above that, then by 2^13, then by 2.
RECURSIVE BigShl(_, _)
BigShl(a, n) ==
    IF n = 0 \/ a = <<>> THEN a
    ELSE IF n > 104 THEN BigShl(BigShl(a, 104), n - 104)
    ELSE IF n >= 13 THEN BigShl(BigMulSmall(a, 8192), n - 13)
    ELSE BigShl(BigMulSmall(a, 2), n - 1)

\* a * 10^n
BigMulPow10(a, n) ==
    IF a = <<>> THEN a
    ELSE [i \in 1..(n \div 4) |-> 0]
         \o BigMulSmall(a, <<1, 10, 100, 1000>>[(n % 4) + 1])

\* The largest c in lo..hi with d * c <= r, for d * lo <= r.
RECURSIVE Bisect(_, _, _, _)
Bisect(r, d, lo, hi) ==
    IF lo = hi THEN lo
    ELSE IF BigLess(r, BigMulSmall(d, (lo + hi + 1) \div 2))
    THEN Bisect(r, d, lo, ((lo + hi + 1) \div 2) - 1)
    ELSE Bisect(r, d, (lo + hi + 1) \div 2, hi)

\* Quotient and remainder of n by d > 0, thirteen bits of the quotient at a
\* time: h is the quotient and the remainder by 2^13 * d, and c, the next
\* thirteen bits, is the largest number with d * c <= h.r.
RECURSIVE BigDivMod(_, _)
BigDivMod(n, d) ==
    LET Bits(h, c) ==
            [q |-> BigAdd(BigMulSmall(h.q, 8192), BigTrim(<<c>>), 0),
             r |-> BigSub(h.r, BigMulSmall(d, c))]
        Step(h) == Bits(h, Bisect(h.r, d, 0, 8191))
    IN  IF BigLess(n, d) THEN [q |-> <<>>, r |-> n]
        ELSE Step(BigDivMod(n, BigMulSmall(d, 8192)))

\* The number a run of decimal digits writes: four digits to the limb, from
\* the right.
BigOfDigits(ds) ==
    LET n == Len(ds)
        digit(k) == IF k >= 1 THEN DigitValue(ds[k]) ELSE 0
    IN  BigTrim([i \in 1..((n + 3) \div 4) |->
                    digit(n - 4 * i + 4) + 10 * digit(n - 4 * i + 3)
                    + 100 * digit(n - 4 * i + 2) + 1000 * digit(n - 4 * i + 1)])

\* --- float64.  A value is its sign and m * 2^e: 2^52 <= m < 2^53 for a
\* normal number, m < 2^52 and e = -1074 for a subnormal one, m = 0 and
\* e = 0 for zero.
Float64(neg, m, e) == [neg |-> neg, m |-> m, e |-> e]

Two52 == BigShl(<<1>>, 52)

\* The number of times t can be doubled without passing n, for n >= t > 0:
\* by steps of 104 doublings, then of 13, then of 1.
RECURSIVE Log2Floor(_, _, _, _)
Log2Floor(n, t, acc, step) ==
    IF ~BigLess(n, BigShl(t, step))
    THEN Log2Floor(n, BigShl(t, step), acc + step, step)
    ELSE IF step = 104 THEN Log2Floor(n, t, acc, 13)
    ELSE IF step = 13 THEN Log2Floor(n, t, acc, 1)
    ELSE acc

\* The number of times n has to be doubled to reach m, for 0 < n < m.
RECURSIVE Log2Deficit(_, _, _, _)
Log2Deficit(n, m, acc, step) ==
    IF BigLess(BigShl(n, step), m)
    THEN Log2Deficit(BigShl(n, step), m, acc + step, step)
    ELSE IF step = 104 THEN Log2Deficit(n, m, acc, 13)
    ELSE IF step = 13 THEN Log2Deficit(n, m, acc, 1)
    ELSE acc + 1

\* The float64 nearest to n / m with exponent k: the quotient of n / 2^k by
\* m to the nearest whole number, a tie to the even one; a quotient rounded
\* up to 2^53 is 2^52 with the next exponent.  Not ok beyond the largest
\* float64.
NearestAt(neg, n2, m2, k) ==
    LET Result(mant, e) ==
            IF mant = <<>> THEN [ok |-> TRUE, val |-> Float64(neg, <<>>, 0)]
            ELSE IF e + 52 > 1023 THEN [ok |-> FALSE, val |-> None]
            ELSE [ok |-> TRUE, val |-> Float64(neg, mant, e)]
        Normal(q) ==
            IF q = BigMulSmall(Two52, 2) THEN Result(Two52, k + 1)
            ELSE Result(q, k)
        Rounded(d) ==
            IF d.r = <<>> THEN Normal(d.q)
            ELSE IF \/ BigLess(m2, BigMulSmall(d.r, 2))
                    \/ BigMulSmall(d.r, 2) = m2 /\ d.q # <<>> /\ d.q[1] % 2 = 1
            THEN Normal(BigAdd(d.q, <<>>, 1))
            ELSE Normal(d.q)
    IN  Rounded(BigDivMod(n2, m2))

\* The float64 nearest to n / m (n, m > 0): its exponent is 52 below that
\* of the first bit of n / m, and not below -1074, where the subnormal
\* numbers are.
Nearest(neg, n, m) ==
    LET Clip(l) == IF l - 52 < 0 - 1074 THEN 0 - 1074 ELSE l - 52
        At(k) == IF k < 0 THEN NearestAt(neg, BigShl(n, 0 - k), m, k)
                 ELSE NearestAt(neg, n, BigShl(m, k), k)
    IN  At(Clip(IF BigLess(n, m) THEN 0 - Log2Deficit(n, m, 0, 104)
                ELSE Log2Floor(n, m, 0, 104)))

\* --- encoding/json, decoding into interface{}: a number becomes a float64,
\* a string the bytes it writes, true, false and null themselves, an array
\* the list of its elements and an object the list of its members; white
\* space is allowed around every token.
JSONValue(t, v) == [t |-> t, v |-> v]

ParseFailed == [ok |-> FALSE, pos |-> 0, val |-> None]

Parsed(p, v) == [ok |-> TRUE, pos |-> p, val |-> v]

\* The first position from p on that holds a byte of B, past the end when
\* there is none.
FirstOf(s, p, B) ==
    CHOOSE e \in p..(Len(s) + 1) :
        /\ e > Len(s) \/ s[e] \in B
        /\ \A k \in p..(e - 1) : s[k] \notin B

\* The first position from p on that is not white space.
SkipSpace(s, p) == FirstOf(s, p, AllBytes \ {" ", "\t", "\r", "\n"})

\* s has the bytes of w at position p.
HasWord(s, p, w) ==
    /\ p + Len(w) - 1 <= Len(s)
    /\ \A n \in DOMAIN w : s[p + n - 1] = w[n]

\* The first position from p on that holds no digit.
DigitsEnd(s, p) == FirstOf(s, p, AllBytes \ {Digits[n] : n \in DOMAIN Digits})

\* The number literal of JSON that starts at p,
\*   -? (0 | [1-9][0-9]*) (. [0-9]+)? ([eE] [+-]? [0-9]+)?
\* where it ends, and its parts.
NumberLiteral(s, p) ==
    LET hasFrac(j) == j <= Len(s) /\ s[j] = "."
        hasExp(f) == f <= Len(s) /\ s[f] \in {"e", "E"}
        signed(f) == hasExp(f) /\ f + 1 <= Len(s) /\ s[f + 1] \in {"+", "-"}
        \* i: the integer part, j: its end, f: the end of the fraction,
        \* x: the digits of the exponent, e: their end
        Literal(i, j, f, x, e) ==
            [ok |-> /\ i <= Len(s) /\ IsDigit(s[i])
                    /\ (hasFrac(j) => f > j + 1)
                    /\ (hasExp(f) => e > x),
             end |-> e,
             neg |-> s[p] = "-",
             digits |-> SubSeq(s, i, j - 1) \o SubSeq(s, j + 1, f - 1),
             fraction |-> IF hasFrac(j) THEN f - j - 1 ELSE 0,
             expNeg |-> signed(f) /\ s[f + 1] = "-",
             exp |-> SubSeq(s, x, e - 1)]
        Exponent(i, j, f, x) ==
            Literal(i, j, f, x, IF hasExp(f) THEN DigitsEnd(s, x) ELSE f)
        Fraction(i, j, f) ==
            Exponent(i, j, f, IF ~hasExp(f) THEN f
                              ELSE IF signed(f) THEN f + 2 ELSE f + 1)
        Integer(i, j) ==
            Fraction(i, j, IF hasFrac(j) THEN DigitsEnd(s, j + 1) ELSE j)
        Sign(i) ==
            Integer(i, IF i > Len(s) \/ ~IsDigit(s[i]) THEN i
                       ELSE IF s[i] = "0" THEN i + 1 ELSE DigitsEnd(s, i))
    IN  Sign(IF s[p] = "-" THEN p + 1 ELSE p)

\* strconv reads the digits of an exponent as long as it is below 10000.
RECURSIVE ExponentOf(_, _)
ExponentOf(ds, e) ==
    IF ds = <<>> THEN e
    ELSE ExponentOf(Tail(ds),
                    IF e < 10000 THEN e * 10 + DigitValue(ds[1]) ELSE e)

\* The digits without the zeros they start with.
StripZeros(ds) ==
    LET nz == {k \in DOMAIN ds : ds[k] # "0"}
    IN  IF nz = {} THEN <<>>
        ELSE SubSeq(ds, CHOOSE k \in nz : \A j \in nz : k <= j, Len(ds))

\* strconv.ParseFloat(s, 64) of a number literal: the nearest float64; zero
\* for a number too small, an error for one too large.
ParseFloat(lit) ==
    LET ds == StripZeros(lit.digits)
        x == ExponentOf(lit.exp, 0)
        adj == (IF lit.expNeg THEN 0 - x ELSE x) - lit.fraction
        dp == Len(ds) + adj
    IN  IF ds = <<>> \/ dp < 0 - 330
        THEN [ok |-> TRUE, val |-> Float64(lit.neg, <<>>, 0)]
        ELSE IF dp > 310 THEN [ok |-> FALSE, val |-> None]
        ELSE Nearest(lit.neg,
                     BigMulPow10(BigOfDigits(ds), IF adj >= 0 THEN adj ELSE 0),
                     BigMulPow10(<<1>>, IF adj >= 0 THEN 0 ELSE 0 - adj))

\* r + mp reaches s (passes s, when the end of the interval does not round
\* to the float64).
High(r, mp, s, even) ==
    IF even THEN ~BigLess(BigAdd(r, mp, 0), s) ELSE BigLess(s, BigAdd(r, mp, 0))

\* The power of ten dp with 10^(dp-1) <= upper end of the interval < 10^dp,
\* and r, s, mp, mm scaled to it: by steps of 32 powers, then of 4, then of 1.
RECURSIVE Scale(_, _, _, _, _, _, _)
Scale(r, mp, mm, s, dp, even, step) ==
    IF High(r, mp, BigMulPow10(s, step - 1), even)
    THEN Scale(r, mp, mm, BigMulPow10(s, step), dp + step, even, step)
    ELSE IF ~High(BigMulPow10(r, step), BigMulPow10(mp, step), s, even)
    THEN Scale(BigMulPow10(r, step), BigMulPow10(mp, step),
               BigMulPow10(mm, step), s, dp - step, even, step)
    ELSE IF step = 32 THEN Scale(r, mp, mm, s, dp, even, 4)
    ELSE IF step = 4 THEN Scale(r, mp, mm, s, dp, even, 1)
    ELSE [r |-> r, mp |-> mp, mm |-> mm, s |-> s, dp |-> dp]

\* The digits, one by one, until what is left is within the interval; the
\* last one is rounded to the nearer end.
RECURSIVE Generate(_, _, _, _, _)
Generate(r, mp, mm, s, even) ==
    LET After(digit, rest, mp10, mm10) ==
            LET low == IF even THEN ~BigLess(mm10, rest)
                       ELSE BigLess(rest, mm10)
                high == High(rest, mp10, s, even)
                twice == BigMulSmall(rest, 2)
            IN  IF ~low /\ ~high
                THEN <<digit>> \o Generate(rest, mp10, mm10, s, even)
                ELSE IF low /\ ~high THEN <<digit>>
                ELSE IF high /\ ~low THEN <<digit + 1>>
                ELSE IF BigLess(twice, s) \/ (twice = s /\ digit % 2 = 0)
                THEN <<digit>>
                ELSE <<digit + 1>>
        Digit(r10, digit) ==
            After(digit, BigSub(r10, BigMulSmall(s, digit)),
                  BigMulPow10(mp, 1), BigMulPow10(mm, 1))
        Times10(r10) == Digit(r10, Bisect(r10, s, 0, 9))
    IN  Times10(BigMulSmall(r, 10))

\* strconv's shortest digits of a float64 that is not zero: the fewest
\* digits that read back as the same float64, nearest to it; the value is
\* 0.d1d2...dn * 10^dp.
ShortestDigits(f) ==
    LET even == f.m[1] % 2 = 0
        sh == IF f.m = Two52 /\ f.e > 0 - 1074 THEN 2 ELSE 1
        up == IF f.e >= 0 THEN f.e ELSE 0
        down == IF f.e < 0 THEN 0 - f.e ELSE 0
        Text(ds) == [n \in DOMAIN ds |-> Digits[ds[n] + 1]]
        Scaled(sc) ==
            [digits |-> Text(Generate(sc.r, sc.mp, sc.mm, sc.s, even)),
             dp |-> sc.dp]
    IN  Scaled(Scale(BigShl(f.m, up + sh), BigShl(<<1>>, up + sh - 1),
                     BigShl(<<1>>, up), BigShl(<<1>>, down + sh), 0, even,
                     32))

\* encoding/json's float64 encoder: strconv.AppendFloat with the shortest
\* digits, in format 'f', or in format 'e' below 1e-6 and from 1e21 on, where
\* an exponent of one digit is written without the leading zero.
FormatFloat(f) ==
    LET zeros(k) == [j \in 1..k |-> "0"]
        Layout(ds, n, dp) ==
            IF dp < 0 - 5 \/ dp > 21
            THEN <<ds[1]>>
                 \o (IF n > 1 THEN <<".">> \o SubSeq(ds, 2, n) ELSE <<>>)
                 \o (IF dp - 1 < 0 THEN <<"e", "-">> \o Decimal(1 - dp)
                     ELSE <<"e", "+">> \o Decimal(dp - 1))
            ELSE IF dp <= 0 THEN <<"0", ".">> \o zeros(0 - dp) \o ds
            ELSE IF n <= dp THEN ds \o zeros(dp - n)
            ELSE SubSeq(ds, 1, dp) \o <<".">> \o SubSeq(ds, dp + 1, n)
        Shortest(sd) == Layout(sd.digits, Len(sd.digits), sd.dp)
    IN  (IF f.neg THEN <<"-">> ELSE <<>>)
        \o (IF f.m = <<>> THEN <<"0">> ELSE Shortest(ShortestDigits(f)))

\* --- strings.
\* utf8.DecodeRune: the length of the UTF-8 sequence that starts at p, 0
\* when the bytes there are not one.
RuneLen(s, p) ==
    LET b == ByteValue(s[p])
        cont(k, lo, hi) == /\ p + k <= Len(s)
                           /\ ByteValue(s[p + k]) >= lo
                           /\ ByteValue(s[p + k]) <= hi
    IN  IF b < 128 THEN 1
        ELSE IF b >= 194 /\ b <= 223
        THEN (IF cont(1, 128, 191) THEN 2 ELSE 0)
        ELSE IF b >= 224 /\ b <= 239
        THEN (IF /\ cont(1, IF b = 224 THEN 160 ELSE 128,
                            IF b = 237 THEN 159 ELSE 191)
                 /\ cont(2, 128, 191)
              THEN 3 ELSE 0)
        ELSE IF b >= 240 /\ b <= 244
        THEN (IF /\ cont(1, IF b = 240 THEN 144 ELSE 128,
                            IF b = 244 THEN 143 ELSE 191)
                 /\ cont(2, 128, 191)
                 /\ cont(3, 128, 191)
              THEN 4 ELSE 0)
        ELSE 0

\* utf8.EncodeRune
EncodeRune(r) ==
    IF r < 128 THEN <<Bytes[r + 1]>>
    ELSE IF r < 2048
    THEN <<Bytes[192 + (r \div 64) + 1], Bytes[128 + (r % 64) + 1]>>
    ELSE IF r < 65536
    THEN <<Bytes[224 + (r \div 4096) + 1], Bytes[128 + ((r \div 64) % 64) + 1],
           Bytes[128 + (r % 64) + 1]>>
    ELSE <<Bytes[240 + (r \div 262144) + 1],
           Bytes[128 + ((r \div 4096) % 64) + 1],
           Bytes[128 + ((r \div 64) % 64) + 1], Bytes[128 + (r % 64) + 1]>>

\* U+FFFD, what an ill-formed byte or a lone surrogate is decoded as.
ReplacementChar == 65533

\* getu4: the number a \uXXXX at p writes, -1 when there is none.
getu4(s, p) ==
    IF /\ p + 5 <= Len(s)
       /\ s[p] = "\\" /\ s[p + 1] = "u"
       /\ \A k \in 2..5 : IsHex(s[p + k])
    THEN 4096 * HexValue(s[p + 2]) + 256 * HexValue(s[p + 3])
         + 16 * HexValue(s[p + 4]) + HexValue(s[p + 5])
    ELSE 0 - 1

\* The character an escape of one letter stands for.
Escapes ==
    [c \in {"\"", "\\", "/", "b", "f", "n", "r", "t"} |->
        CASE c = "b" -> Bytes[9] [] c = "f" -> "\f" [] c = "n" -> "\n"
          [] c = "r" -> "\r" [] c = "t" -> "\t" [] OTHER -> c]

\* The scanner's string state and unquote: from p, inside a string literal,
\* to its closing quote; acc is the decoded string so far.  A byte below
\* 0x20 and an unknown escape end the parse; a run of plain bytes is taken
\* over as it is; bytes that are not UTF-8 are
\* decoded as U+FFFD; two \u escapes that are a surrogate pair are one
\* character, a surrogate alone is U+FFFD.
RECURSIVE unquote(_, _, _)
unquote(s, p, acc) ==
    IF p > Len(s) \/ s[p] \in ControlBytes THEN ParseFailed
    ELSE IF s[p] = "\"" THEN Parsed(p + 1, JSONValue("str", acc))
    ELSE IF s[p] = "\\"
    THEN IF p + 1 > Len(s) THEN ParseFailed
         ELSE IF s[p + 1] \in DOMAIN Escapes
         THEN unquote(s, p + 2, Append(acc, Escapes[s[p + 1]]))
         ELSE IF getu4(s, p) < 0 THEN ParseFailed
         ELSE LET r1 == getu4(s, p)
                  r2 == getu4(s, p + 6)
              IN  IF r1 < 55296 \/ r1 > 57343
                  THEN unquote(s, p + 6, acc \o EncodeRune(r1))
                  ELSE IF r1 < 56320 /\ r2 >= 56320 /\ r2 <= 57343
                  THEN unquote(s, p + 12,
                               acc \o EncodeRune(65536 + (r1 - 55296) * 1024
                                                 + (r2 - 56320)))
                  ELSE unquote(s, p + 6, acc \o EncodeRune(ReplacementChar))
    ELSE IF s[p] \notin HighBytes
    THEN LET e == FirstOf(s, p, ControlBytes \cup HighBytes \cup {"\"", "\\"})
         IN  unquote(s, e, acc \o SubSeq(s, p, e - 1))
    ELSE IF RuneLen(s, p) = 0
    THEN unquote(s, p + 1, acc \o EncodeRune(ReplacementChar))
    ELSE unquote(s, p + RuneLen(s, p),
                 acc \o SubSeq(s, p, p + RuneLen(s, p) - 1))

\* A string literal, p at its opening quote.
ParseString(s, p) == unquote(s, p + 1, <<>>)

\* A number literal, p at its first byte ("-" or a digit): its float64
\* (decodeState.convertNumber); a literal beyond the float64 range fails
\* the parse.
ParseNumber(s, p) ==
    LET Convert(end, f) ==
            IF f.ok THEN Parsed(end, JSONValue("num", f.val)) ELSE ParseFailed
        Scanned(lit) ==
            IF lit.ok THEN Convert(lit.end, ParseFloat(lit)) ELSE ParseFailed
    IN  Scanned(NumberLiteral(s, p))

Literals == {<<"t", "r", "u", "e">>, <<"f", "a", "l", "s", "e">>,
             <<"n", "u", "l", "l">>}

\* encoding/json scanner: the arrays and objects that may be open at once;
\* one more fails the scan ("exceeded max depth").
maxNestingDepth == 10000

\* In the operators below d is the number of arrays and objects open at p.
RECURSIVE ParseValue(_, _, _)
RECURSIVE ParseElements(_, _, _, _)
RECURSIVE ParseMembers(_, _, _, _)

\* The elements of an array after its first: "," value ... "]".
ParseElements(s, p, acc, d) ==
    LET q == SkipSpace(s, p)
        More(r) == IF r.ok THEN ParseElements(s, r.pos, Append(acc, r.val), d)
                   ELSE ParseFailed
    IN  IF q > Len(s) THEN ParseFailed
        ELSE IF s[q] = "]" THEN Parsed(q + 1, JSONValue("arr", acc))
        ELSE IF s[q] # "," THEN ParseFailed
        ELSE More(ParseValue(s, q + 1, d))

\* One member of an object, "key" : value, starting at the key.
ParseMember(s, p, d) ==
    LET q == SkipSpace(s, p)
        Value(k, r) == IF r.ok THEN Parsed(r.pos, <<k.val.v, r.val>>)
                       ELSE ParseFailed
        Colon(k, c) == IF c > Len(s) \/ s[c] # ":" THEN ParseFailed
                       ELSE Value(k, ParseValue(s, c + 1, d))
        Key(k) == IF k.ok THEN Colon(k, SkipSpace(s, k.pos)) ELSE ParseFailed
    IN  IF q > Len(s) \/ s[q] # "\"" THEN ParseFailed
        ELSE Key(ParseString(s, q))

\* The members of an object after its first: "," member ... "}".
ParseMembers(s, p, acc, d) ==
    LET q == SkipSpace(s, p)
        More(r) == IF r.ok THEN ParseMembers(s, r.pos, Append(acc, r.val), d)
                   ELSE ParseFailed
    IN  IF q > Len(s) THEN ParseFailed
        ELSE IF s[q] = "}" THEN Parsed(q + 1, JSONValue("obj", acc))
        ELSE IF s[q] # "," THEN ParseFailed
        ELSE More(ParseMember(s, q + 1, d))

\* An array, p at its "[", the array counted in d.
ParseArray(s, p, d) ==
    LET q == SkipSpace(s, p + 1)
        First(r) == IF r.ok THEN ParseElements(s, r.pos, <<r.val>>, d)
                    ELSE ParseFailed
    IN  IF q <= Len(s) /\ s[q] = "]" THEN Parsed(q + 1, JSONValue("arr", <<>>))
        ELSE First(ParseValue(s, p + 1, d))

\* An object, p at its "{", the object counted in d.
ParseObject(s, p, d) ==
    LET q == SkipSpace(s, p + 1)
        First(r) == IF r.ok THEN ParseMembers(s, r.pos, <<r.val>>, d)
                    ELSE ParseFailed
    IN  IF q <= Len(s) /\ s[q] = "}" THEN Parsed(q + 1, JSONValue("obj", <<>>))
        ELSE First(ParseMember(s, p + 1, d))

\* A value; an array or object that would be open beyond maxNestingDepth
\* fails the parse.
ParseValue(s, p, d) ==
    LET q == SkipSpace(s, p)
    IN  IF q > Len(s) THEN ParseFailed
        ELSE IF s[q] \in {"{", "["} /\ d >= maxNestingDepth THEN ParseFailed
        ELSE IF s[q] = "{" THEN ParseObject(s, q, d + 1)
        ELSE IF s[q] = "[" THEN ParseArray(s, q, d + 1)
        ELSE IF s[q] = "\"" THEN ParseString(s, q)
        ELSE IF s[q] = "-" \/ IsDigit(s[q]) THEN ParseNumber(s, q)
        ELSE IF \E w \in Literals : HasWord(s, q, w)
        THEN LET w == CHOOSE w \in Literals : HasWord(s, q, w)
             IN  Parsed(q + Len(w), JSONValue("lit", w))
        ELSE ParseFailed

\* json.Unmarshal(payload, &jsonObj): one value and nothing but white space
\* after it.
Unmarshal(payload) ==
    LET Whole(r) ==
            IF r.ok /\ SkipSpace(payload, r.pos) > Len(payload)
            THEN [ok |-> TRUE, val |-> r.val]
            ELSE [ok |-> FALSE, val |-> None]
    IN  Whole(ParseValue(payload, 1, 0))

\* --- json.MarshalIndent(jsonObj, "", "  ").  An object was decoded into a
\* map: of two members with one key the later one is kept, and the keys are
\* written in sorted order.
RECURSIVE Indent(_)
Indent(d) == IF d = 0 THEN <<>> ELSE <<" ", " ">> \o Indent(d - 1)

MemberKeys(m) == {m[n][1] : n \in DOMAIN m}

MemberValue(m, k) ==
    LET last == CHOOSE n \in DOMAIN m :
                    /\ m[n][1] = k
                    /\ \A o \in DOMAIN m : m[o][1] = k => o <= n
    IN  m[last][2]

RECURSIVE SortedKeys(_)
SortedKeys(S) ==
    IF S = {} THEN <<>>
    ELSE LET k == CHOOSE k \in S : \A o \in S \ {k} : StrLess(k, o)
         IN  <<k>> \o SortedKeys(S \ {k})

\* Lines joined by a comma and a line break.
RECURSIVE JoinLines(_)
JoinLines(lines) ==
    IF Len(lines) = 1 THEN lines[1]
    ELSE lines[1] \o <<",", "\n">> \o JoinLines(Tail(lines))

\* encoding/json's string encoder with HTML escaping on (the default of
\* Marshal): quote and backslash get a backslash, \b \f \n \r \t their
\* letter, the other bytes below 0x20 and <, >, & the form \u00XX, U+2028
\* and U+2029 the forms \u2028 and \u2029; everything else is copied, a
\* run of such bytes at once.
EscapeLetter ==
    [c \in {Bytes[9], "\f", "\n", "\r", "\t"} |->
        CASE c = "\f" -> "f" [] c = "\n" -> "n" [] c = "\r" -> "r"
          [] c = "\t" -> "t" [] OTHER -> "b"]

RECURSIVE appendString(_)
appendString(b) ==
    IF b = <<>> THEN <<>>
    ELSE LET c == b[1]
             v == ByteValue(c)
             e == FirstOf(b, 1, ControlBytes
                                \cup {"\"", "\\", "<", ">", "&", Bytes[227]})
         IN  IF e > 1
             THEN SubSeq(b, 1, e - 1) \o appendString(SubSeq(b, e, Len(b)))
             ELSE IF c \in {"\"", "\\"}
             THEN <<"\\", c>> \o appendString(Tail(b))
             ELSE IF c \in DOMAIN EscapeLetter
             THEN <<"\\", EscapeLetter[c]>> \o appendString(Tail(b))
             ELSE IF c \in ControlBytes \cup {"<", ">", "&"}
             THEN <<"\\", "u", "0", "0", Hex[(v \div 16) + 1],
                    Hex[(v % 16) + 1]>>
                  \o appendString(Tail(b))
             ELSE IF /\ Len(b) >= 3
                     /\ SubSeq(b, 1, 2) = <<Bytes[227], Bytes[129]>>
                     /\ b[3] \in {Bytes[169], Bytes[170]}
             THEN <<"\\", "u", "2", "0", "2",
                    IF b[3] = Bytes[169] THEN "8" ELSE "9">>
                  \o appendString(SubSeq(b, 4, Len(b)))
             ELSE <<c>> \o appendString(Tail(b))

RECURSIVE MarshalValue(_, _)
MarshalValue(v, d) ==
    CASE v.t = "num" -> FormatFloat(v.v)
      [] v.t = "lit" -> v.v
      [] v.t = "str" -> <<"\"">> \o appendString(v.v) \o <<"\"">>
      [] v.t = "arr" ->
            IF v.v = <<>> THEN <<"[", "]">>
            ELSE <<"[", "\n">>
                 \o JoinLines([n \in DOMAIN v.v |->
                        Indent(d + 1) \o MarshalValue(v.v[n], d + 1)])
                 \o <<"\n">> \o Indent(d) \o <<"]">>
      [] v.t = "obj" ->
            IF v.v = <<>> THEN <<"{", "}">>
            ELSE LET keys == SortedKeys(MemberKeys(v.v))
                 IN  <<"{", "\n">>
                     \o JoinLines([n \in DOMAIN keys |->
                            Indent(d + 1) \o <<"\"">> \o appendString(keys[n])
                            \o <<"\"", ":", " ">>
                            \o MarshalValue(MemberValue(v.v, keys[n]), d + 1)])
                     \o <<"\n">> \o Indent(d) \o <<"}">>

MarshalIndent(v) == MarshalValue(v, 0)

\* main.go 68 and 55: "<envelope> %s (%d bytes)" of topic and payload length.
Header(msg) ==
    <<Envelope, " ">> \o msg.topic \o <<" ", "(">>
    \o Decimal(Len(msg.payload)) \o <<" ", "b", "y", "t", "e", "s", ")">>

\* main.go 57-63: the decoded payload pretty-printed, and the payload as it
\* came when it did not decode (MarshalIndent cannot fail on a decoded
\* value).
prettyPayload(payload, u) == IF u.ok THEN MarshalIndent(u.val) ELSE payload

\* Faulty variant of formatMessage: the mode is not looked at, the payload is
\* always shown.
formatMessageAlwaysDetailed(msg, isDetailed) ==
    Header(msg) \o <<"\n">>
    \o prettyPayload(msg.payload, Unmarshal(msg.payload))

\* Faulty variant of formatMessage: a payload that is not JSON is left out.
formatMessageDropsMalformed(msg, isDetailed) ==
    IF isDetailed
    THEN Header(msg) \o <<"\n">> \o prettyPayload(<<>>, Unmarshal(msg.payload))
    ELSE Header(msg)

\* main.go 52-70.  A message is its topic and its payload.  In detailed mode
\* the payload follows on a new line, pretty-printed when it decodes as JSON
\* and as it came otherwise.
formatMessage(msg, isDetailed) ==
    IF isDetailed
    THEN Header(msg) \o <<"\n">>
         \o prettyPayload(msg.payload, Unmarshal(msg.payload))
    ELSE Header(msg)

\* Topics and payloads formatMessage is explored on.
FmtTopics == {<<"a">>, <<"a", "/", "b">>}

Payloads ==
    { <<>>,
      <<"1">>,
      <<"0", "1">>,
      <<" ", "1", "2", " ">>,
      <<"h", "i">>,
      <<"\"", "h", "i", "\"">>,
      <<"\"", "h", "1", "\"">>,
      <<"\"", "a", " ", "b", "\"">>,
      <<"\"", "a", "\\", "n", "<", "\"">>,
      <<"[", "\"", "1", "\"", "]">>,
      <<"1", "e", "2">>,
      <<"1", ".", "5", "0">>,
      <<"-", "0">>,
      <<"9", "0", "0", "7", "1", "9", "9", "2", "5", "4", "7", "4", "0", "9",
        "9", "3">>,
      <<"1", "0", "0", "0", "0", "0", "0", "0", "0", "0", "0", "0", "0", "0",
        "0", "0", "0", "0", "0", "0", "0", "0">>,
      <<"n", "u", "l", "l">>,
      <<"{", "}">>,
      <<"[", "1", ",", "2", "]">>,
      <<"[", "1", ",", "]">>,
      <<"{", "\"", "a", "\"", ":", "1", "}">>,
      <<"{", "\"", "a", "\"", ":">>,
      <<"{", "\"", "b", "\"", ":", "1", ",", "\"", "a", "\"", ":", "2", "}">>,
      <<"{", "\"", "a", "\"", ":", "1", ",", "\"", "a", "\"", ":", "2", "}">>,
      <<"{", "\"", "a", "\"", ":", "[", "t", "r", "u", "e", "]", "}">> }

Messages == [topic : FmtTopics, payload : Payloads]

\* main() has not started: the state of a specification that is about one
\* function only.
MainIdle ==
    /\ brokers = <<>>
    /\ pc = "idle"
    /\ idx = 1
    /\ tix = 1
    /\ outputFile = <<>>
    /\ outputPath = <<>>
    /\ status = <<>>
    /\ subscribed = <<>>
    /\ connections = <<>>
    /\ mu = <<>>
    /\ cb = <<>>
    /\ log = {}
    /\ connectLog = <<>>
    /\ subLog = <<>>
    /\ exit = "none"
    /\ token = "none"
    /\ handlers = {}
    /\ losses = 0

InitFormat ==
    /\ fmtMsg \in [msg : Messages, detailed : BOOLEAN]
    /\ fmtOut = None
    /\ env = None
    /\ configFile = None
    /\ cfg = None
    /\ MainIdle
    /\ NoSessionData

\* One call of formatMessage.
Format ==
    /\ fmtMsg # None
    /\ fmtOut = None
    /\ fmtOut' = formatMessage(fmtMsg.msg, fmtMsg.detailed)
    /\ UNCHANGED <<fmtMsg, env, configFile, cfg, mainVars, sessionVars>>

NextFormat == Format

SpecFormat == InitFormat /\ [][NextFormat]_vars

\* ------------------------------------------------ output files of targets
\* The working directory of the process.
Cwd == <<"/", "w">>

\* Output files the targets can name: a bare name, the file it stands for
\* written from the working directory ("./logs/a.log") and as an absolute
\* path, and a file elsewhere.
FilePaths ==
    <<  <<"a.log">>, <<".", "logs", "a.log">>, Cwd \o <<"logs", "a.log">>,
        <<"/", "tmp", "a.log">>  >>

\* MaxTargets targets, each naming one of the output files, with one topic.
\* The targets come in the order of FilePaths: the files two targets name
\* are the same whichever of the two is configured first.
InitFiles ==
    /\ \E f \in [1..MaxTargets -> DOMAIN FilePaths] :
          /\ \A i, j \in DOMAIN f : i < j => f[i] <= f[j]
          /\ brokers = [i \in 1..MaxTargets |->
                           [OutputFile |-> FilePaths[f[i]],
                            Topics |-> <<TopicName(1)>>]]
    /\ MainStart
    /\ NoSessionData
    /\ NoPureData

SpecFiles == InitFiles /\ [][Next]_vars

\* ------------------------------------------------- messages of the sessions
\* The handler followed message by message: the same steps as Deliver,
\* HandlerLock, HandlerConsole and HandlerFile, with the message each callback
\* carries, the record it writes to the console and the WriteString call it
\* makes on the session's file.  Message n of a session is the n-th the
\* transport handed to its callback.

\* Messages the transport delivers: one that decodes as JSON, one that does not.
SessionMessages ==
    { [topic |-> <<"a">>,
       payload |->
           <<"{", "\"", "a", "\"", ":", "\"", "b", " ", "1", "\"", "}">>],
      [topic |-> <<"a">>, payload |-> <<"{", "\"", "a", "\"", ":">>] }

\* Messages delivered so far over all sessions.
RECURSIVE DeliveredUpTo(_)
DeliveredUpTo(n) ==
    IF n = 0 THEN 0 ELSE DeliveredUpTo(n - 1) + Len(delivered[n])

\* main.go 40: the console line, "[Broker %d: %s] %s" of brokerIndex+1, the
\* address and the formatted message.
ConsoleRecord(i, n) ==
    [broker |-> i, msg |-> n, text |-> formatMessage(delivered[i][n], detailed)]

\* main.go 44-46: the line handed to WriteString (the same formatted message
\* after a time stamp and the same tag), and whether the write went through.
FileRecord(i, n, ok) ==
    [broker |-> i, msg |-> n, text |-> formatMessage(delivered[i][n], detailed),
     ok |-> ok]

\* main.go 32: the transport invokes the handler with message m.
Receive(i, m) ==
    /\ DeliveredUpTo(K) < MaxMessages
    /\ Deliver(i)
    /\ delivered' = [delivered EXCEPT ![i] = Append(@, m)]
    /\ at' = [at EXCEPT ![i] = Append(@, "wait")]
    /\ overlap' = [overlap EXCEPT ![i] = @ \/ cb[i] # NoCallbacks]
    /\ UNCHANGED <<detailed, console, written>>

\* main.go 33-37: the callback of message n takes the mutex and formats.
Take(i, n) ==
    /\ at[i][n] = "wait"
    /\ HandlerLock(i)
    /\ at' = [at EXCEPT ![i][n] = "console"]
    /\ UNCHANGED <<detailed, delivered, console, written, overlap>>

\* main.go 40-43: logger.Info writes the console record of message n.
WriteConsole(i, n) ==
    /\ at[i][n] = "console"
    /\ HandlerConsole(i)
    /\ console' = Append(console, ConsoleRecord(i, n))
    /\ at' = [at EXCEPT ![i][n] = IF outputFile[i] # "nil" THEN "file"
                                  ELSE "done"]
    /\ UNCHANGED <<detailed, delivered, written, overlap>>

\* main.go 44-47: WriteString and Sync on the session's file.  Both return an
\* error that the handler does not look at; on a closed file they always fail.
WriteFile(i, n, ok) ==
    /\ at[i][n] = "file"
    /\ outputFile[i] = "closed" => ~ok
    /\ HandlerFile(i)
    /\ written' = [written EXCEPT ![i] = Append(@, FileRecord(i, n, ok))]
    /\ at' = [at EXCEPT ![i][n] = "done"]
    /\ UNCHANGED <<detailed, delivered, console, overlap>>

\* One configured target, in either display mode (cfg.Detailed, main.go 82).
InitSession ==
    /\ brokers \in [1..1 -> [OutputFile : Paths, Topics : {<<TopicName(1)>>}]]
    /\ MainStart
    /\ detailed \in BOOLEAN
    /\ delivered = [i \in Targets |-> <<>>]
    /\ at = [i \in Targets |-> <<>>]
    /\ console = <<>>
    /\ written = [i \in Targets |-> <<>>]
    /\ overlap = [i \in Targets |-> FALSE]
    /\ NoPureData

NextSession ==
    \/ Prepare
    \/ Connect
    \/ ConnectAnswered
    \/ ConnectReturns
    \/ Subscribe
    \/ SubscribeAnswered
    \/ SubscribeReturns
    \/ AppendConnection
    \/ CheckConnections
    \/ Signal
    \/ ShutdownCheck
    \/ ShutdownDisconnect
    \/ ShutdownClose
    \/ MainReturns
    \/ \E i \in Targets : ConnectionLost(i)
    \/ \E i \in Targets : Reconnect(i)
    \/ \E i \in Targets : createConnectHandler(i)
    \/ \E i \in Targets : createConnectionLostHandler(i)
    \/ \E i \in Targets, m \in SessionMessages : Receive(i, m)
    \/ \E i \in Targets : \E n \in DOMAIN at[i] : Take(i, n)
    \/ \E i \in Targets : \E n \in DOMAIN at[i] : WriteConsole(i, n)
    \/ \E i \in Targets : \E n \in DOMAIN at[i], ok \in BOOLEAN :
          WriteFile(i, n, ok)

SpecSession == InitSession /\ [][NextSession]_vars

\* ------------------------------------------------------- config.LoadConfig
\* The environment is what os.Getenv answers after loadEnvFile has run: the
\* variables of the numbered brokers, the legacy single-broker variables and
\* DETAILED; a variable that is not set reads as the empty string.  The
\* user name and password of a broker are carried along unchanged by the
\* code and are left out.
Str1883 == <<"1", "8", "8", "3">>

StrTrue == <<"t", "r", "u", "e">>

\* os.Getenv of BROKER_<n>_<field> (key <<"BROKER", n, field>>) or of a
\* variable without a number (key <<name>>).
Getenv(key) ==
    IF Len(key) = 3
    THEN IF key[2] \in DOMAIN env.BROKER THEN env.BROKER[key[2]][key[3]]
         ELSE <<>>
    ELSE env[key[1]]

\* main.go 427-432
getEnv(key, fallback) ==
    IF Getenv(key) # <<>> THEN Getenv(key) ELSE fallback

\* The characters unicode.IsSpace holds for.  A string of the configuration
\* is the sequence of its characters; one that has no escape in a string
\* literal is written by its code point.
WhiteSpace ==
    {"\t", "\n", "U+000B", "\f", "\r", " ", "U+0085", "U+00A0", "U+1680",
     "U+2000", "U+2001", "U+2002", "U+2003", "U+2004", "U+2005", "U+2006",
     "U+2007", "U+2008", "U+2009", "U+200A", "U+2028", "U+2029", "U+202F",
     "U+205F", "U+3000"}

\* strings.TrimSpace: all leading and trailing white space is cut off.
RECURSIVE TrimLeft(_)
TrimLeft(s) == IF s # <<>> /\ s[1] \in WhiteSpace THEN TrimLeft(Tail(s)) ELSE s

RECURSIVE TrimRight(_)
TrimRight(s) ==
    IF s # <<>> /\ s[Len(s)] \in WhiteSpace
    THEN TrimRight(SubSeq(s, 1, Len(s) - 1))
    ELSE s

TrimSpace(s) == TrimRight(TrimLeft(s))

\* strings.Split(s, ","): the pieces between the commas, empty ones kept.
RECURSIVE SplitFrom(_, _)
SplitFrom(s, piece) ==
    IF s = <<>> THEN <<piece>>
    ELSE IF s[1] = "," THEN <<piece>> \o SplitFrom(Tail(s), <<>>)
    ELSE SplitFrom(Tail(s), Append(piece, s[1]))

Split(s) == SplitFrom(s, <<>>)

\* main.go 346-351 and 396-401: the topics of a TOPICS variable.
TopicsOf(topicsEnv) ==
    IF topicsEnv = <<>> THEN <<>>
    ELSE [n \in DOMAIN Split(topicsEnv) |-> TrimSpace(Split(topicsEnv)[n])]

\* main.go 355-363 and 405-413: the four topics of a gate id.
GateTopics(gateID) ==
    IF gateID = <<>> THEN <<>>
    ELSE << gateID \o <<"_", "l", "o", "c", "a", "l", "f", "i", "r", "s", "t">>,
            gateID \o <<"_", "p", "a", "r", "k", "b", "o", "x">>,
            gateID \o <<"_", "s", "t", "a", "t", "u", "s">>,
            gateID \o <<"_", "e", "v", "e", "n", "t", "s">> >>

\* main.go 366-368, 416-418, 307-309: "#" when there is no topic.
DefaultTopics(topics) == IF topics = <<>> THEN <<<<"#">>>> ELSE topics

\* main.go 336-368: the broker read from BROKER_<n>_*.
EnvBroker(n) ==
    [Broker |-> getEnv(<<"BROKER", n, "HOST">>, <<>>),
     Port |-> getEnv(<<"BROKER", n, "PORT">>, Str1883),
     OutputFile |-> getEnv(<<"BROKER", n, "OUTPUT_FILE">>, <<>>),
     Topics |-> DefaultTopics(
                   TopicsOf(getEnv(<<"BROKER", n, "TOPICS">>, <<>>))
                   \o GateTopics(getEnv(<<"BROKER", n, "GATE_ID">>, <<>>)))]

\* main.go 327-372: brokers n, n+1, ... up to the first without a host.
RECURSIVE EnvBrokersFrom(_)
EnvBrokersFrom(n) ==
    IF getEnv(<<"BROKER", n, "HOST">>, <<>>) = <<>> THEN <<>>
    ELSE <<EnvBroker(n)>> \o EnvBrokersFrom(n + 1)

\* main.go 384-392
LegacyOutputFile(logFileEnv) ==
    IF logFileEnv = <<>> THEN <<>>
    ELSE IF logFileEnv \in {StrTrue, <<"1">>}
    THEN <<"m", "q", "t", "t", ".", "l", "o", "g">>
    ELSE logFileEnv

\* main.go 376-418: the single broker of the legacy variables.
LegacyBroker ==
    [Broker |-> getEnv(<<"MQTT_BROKER">>,
                       <<"l", "o", "c", "a", "l", "h", "o", "s", "t">>),
     Port |-> getEnv(<<"MQTT_PORT">>, Str1883),
     OutputFile |-> LegacyOutputFile(getEnv(<<"LOG_FILE">>, <<>>)),
     Topics |-> DefaultTopics(TopicsOf(getEnv(<<"MQTT_TOPICS">>, <<>>))
                              \o GateTopics(getEnv(<<"GATE_ID">>, <<>>)))]

\* main.go 322 and 280: DETAILED is "true"
EnvDetailed == getEnv(<<"DETAILED">>, <<"f", "a", "l", "s", "e">>) = StrTrue

\* Faulty variant of loadConfigFromEnv: without numbered brokers the list is
\* left empty instead of holding the legacy broker.
loadConfigFromEnvNoLegacy ==
    [Detailed |-> EnvDetailed, Brokers |-> EnvBrokersFrom(1)]

\* main.go 320-425
loadConfigFromEnv ==
    [Detailed |-> EnvDetailed,
     Brokers |-> IF EnvBrokersFrom(1) = <<>> THEN <<LegacyBroker>>
                 ELSE EnvBrokersFrom(1)]

\* What CONFIG_FILE holds: no readable file ("absent"), something that
\* json.Unmarshal rejects ("invalid"), or a JSON object ("json") with or
\* without a "detailed" member and with the brokers its "brokers" member
\* lists (none when the member is missing).  A field a broker does not give
\* is the empty string or the empty list.
ConfigFileOf(kind, hasDetailed, isDetailed, list) ==
    [kind |-> kind, hasDetailed |-> hasDetailed, detailed |-> isDetailed,
     brokers |-> list]

\* main.go 283: json.Unmarshal(data, cfg) on a cfg that holds the DETAILED
\* of the environment; a member the file does not have leaves its field.
Decode(cfg0, file) ==
    [Detailed |-> IF file.hasDetailed THEN file.detailed ELSE cfg0.Detailed,
     Brokers |-> file.brokers]

\* main.go 296-317
validateAndNormalizeConfig(c) ==
    [c EXCEPT !.Brokers =
        [n \in DOMAIN c.Brokers |->
            LET b == c.Brokers[n]
                topics == DefaultTopics(b.Topics)
            IN  [b EXCEPT
                   !.Port = IF b.Port = <<>> THEN Str1883 ELSE b.Port,
                   !.Topics = [j \in DOMAIN topics |-> TrimSpace(topics[j])]]]]

\* Faulty variant of LoadConfig: the brokers of the environment are added to
\* those of the file.
LoadConfigMergesEnv ==
    LET cfg0 == [Detailed |-> EnvDetailed, Brokers |-> <<>>]
    IN  IF configFile.kind = "json" /\ Len(configFile.brokers) > 0
        THEN LET c == validateAndNormalizeConfig(Decode(cfg0, configFile))
             IN  [c EXCEPT !.Brokers = @ \o EnvBrokersFrom(1)]
        ELSE loadConfigFromEnv

\* main.go 273-294
LoadConfig ==
    LET cfg0 == [Detailed |-> EnvDetailed, Brokers |-> <<>>]
    IN  IF configFile.kind = "json" /\ Len(configFile.brokers) > 0
        THEN validateAndNormalizeConfig(Decode(cfg0, configFile))
        ELSE loadConfigFromEnv

\* --- inputs of LoadConfig
StrHost == <<"h">>

StrPort == <<"8", "8", "8", "3">>

\* The variables of one numbered broker: none set; the host only; host,
\* port, topics "a,<tab>b<line feed>" and file; host, topics "," and gate
\* id.
BrokerEnvs ==
    { [HOST |-> <<>>, PORT |-> <<>>, TOPICS |-> <<>>, GATE_ID |-> <<>>,
       OUTPUT_FILE |-> <<>>],
      [HOST |-> StrHost, PORT |-> <<>>, TOPICS |-> <<>>, GATE_ID |-> <<>>,
       OUTPUT_FILE |-> <<>>],
      [HOST |-> StrHost, PORT |-> StrPort,
       TOPICS |-> <<"a", ",", "\t", "b", "\n">>, GATE_ID |-> <<>>,
       OUTPUT_FILE |-> <<"x">>],
      [HOST |-> StrHost, PORT |-> <<>>, TOPICS |-> <<",">>,
       GATE_ID |-> <<"g">>, OUTPUT_FILE |-> <<>>] }

\* The legacy variables: none set; all set but the gate id; file and gate id.
LegacyEnvs ==
    { [MQTT_BROKER |-> <<>>, MQTT_PORT |-> <<>>, LOG_FILE |-> <<>>,
       MQTT_TOPICS |-> <<>>, GATE_ID |-> <<>>],
      [MQTT_BROKER |-> <<"m">>, MQTT_PORT |-> StrPort, LOG_FILE |-> StrTrue,
       MQTT_TOPICS |-> <<" ", "a">>, GATE_ID |-> <<>>],
      [MQTT_BROKER |-> <<>>, MQTT_PORT |-> <<>>, LOG_FILE |-> <<"x">>,
       MQTT_TOPICS |-> <<>>, GATE_ID |-> <<"g">>] }

Envs ==
    { [DETAILED |-> d, BROKER |-> b, MQTT_BROKER |-> l.MQTT_BROKER,
       MQTT_PORT |-> l.MQTT_PORT, LOG_FILE |-> l.LOG_FILE,
       MQTT_TOPICS |-> l.MQTT_TOPICS, GATE_ID |-> l.GATE_ID] :
         d \in {<<>>, StrTrue, <<"1">>},
         b \in [1..MaxEnvBrokers -> BrokerEnvs],
         l \in LegacyEnvs }

\* A broker of the file: no field given; every field given, a topic with
\* spaces around it; host only, with a topic that is the empty string.
FileBrokers ==
    { [Broker |-> <<>>, Port |-> <<>>, Topics |-> <<>>, OutputFile |-> <<>>],
      [Broker |-> StrHost, Port |-> StrPort,
       Topics |-> << <<" ", "a", " ">>, <<"b">> >>, OutputFile |-> <<"x">>],
      [Broker |-> StrHost, Port |-> <<>>, Topics |-> << <<>> >>,
       OutputFile |-> <<>>] }

ConfigFiles ==
    { ConfigFileOf("absent", FALSE, FALSE, <<>>),
      ConfigFileOf("invalid", FALSE, FALSE, <<>>) }
    \cup { ConfigFileOf("json", h[1], h[2], list) :
             h \in {<<FALSE, FALSE>>, <<TRUE, FALSE>>, <<TRUE, TRUE>>},
             list \in UNION {[1..k -> FileBrokers] : k \in 0..MaxFileBrokers} }

InitConfig ==
    /\ env \in Envs
    /\ configFile \in ConfigFiles
    /\ cfg = None
    /\ fmtMsg = None
    /\ fmtOut = None
    /\ MainIdle
    /\ NoSessionData

\* One call of config.LoadConfig (main.go 78).
Load ==
    /\ env # None
    /\ cfg = None
    /\ cfg' = LoadConfig
    /\ UNCHANGED <<env, configFile, fmtMsg, fmtOut, mainVars, sessionVars>>

NextConfig == Load

SpecConfig == InitConfig /\ [][NextConfig]_vars

\* ------------------------------------------------- vocabulary of the claims
Range(q) == {q[n] : n \in DOMAIN q}

\* Targets whose Connect() has succeeded / failed so far.
ConnectOk(i) == \E n \in DOMAIN connectLog : connectLog[n] = <<i, "ok">>
ConnectFailedFor(i) ==
    \E n \in DOMAIN connectLog : connectLog[n] = <<i, "failed">>

\* main is still in token.Wait() of target i's connect.
InConnectWait(i) == pc = "connect_wait" /\ idx = i
ConnectedTargets == {i \in Targets : ConnectOk(i)}

\* The startup loop has ended / has ended its pass over target i.
StartupDone == pc \in {"check", "running", "sd_check", "sd_disc", "sd_close",
                       "return", "stopped"}
Handled(i) == StartupDone \/ i < idx
InShutdown == pc \in {"sd_check", "sd_disc", "sd_close"}

\* The running set lists exactly the targets of S, in input order.
RunningSetIs(S) ==
    /\ Range(connections) = S
    /\ \A a, b \in DOMAIN connections : a < b => connections[a] < connections[b]

\* Callbacks of all sessions that are between formatting their message and
\* the end of its console write.
RECURSIVE InConsoleSectionUpTo(_)
InConsoleSectionUpTo(n) ==
    IF n = 0 THEN 0 ELSE InConsoleSectionUpTo(n - 1) + cb[n].console

\* ----------------------------------------------------------------- claims
\* C1 as stated: over all sessions, at most one callback is inside the
\* "format one message and write it to the console" section.
C1_OneCallbackInConsoleSection == InConsoleSectionUpTo(K) <= 1

\* C1 as amended: for each session, at most one of its callbacks is inside the
\* "format one message and write it to the console" section (the mutex is the
\* session's own, so callbacks of two sessions can be inside it together).
C1_OnePerSessionInConsoleSection == \A i \in Targets : cb[i].console <= 1

\* C1 witness: a callback is inside the section while a second callback of the
\* same session is held back at the mutex.
C1_Witness == \E i \in Targets : cb[i].console = 1 /\ cb[i].wait >= 1

\* C2: when J of the K targets connect, 1 <= J < K, the running set at the end
\* of startup is exactly those J targets in input order, and the process goes
\* to Running (the listening line is logged), never to the fatal exit.
C2_PartialStartRuns ==
    (StartupDone /\ Cardinality(ConnectedTargets) >= 1
                 /\ Cardinality(ConnectedTargets) < K) =>
        /\ RunningSetIs(ConnectedTargets)
        /\ exit # "fatal"
        /\ pc # "check" =>
              LogLine("listening", Cardinality(ConnectedTargets), "") \in log

\* C2 witness: Running is reached with one of two targets connected.
C2_Witness ==
    /\ pc = "running"
    /\ K = 2
    /\ Cardinality(ConnectedTargets) = 1

\* C3: when every target fails to connect, the running set is empty at the
\* end of startup, the process stops through the fatal exit with its
\* diagnostic, and Running is never entered.
C3_AllFailedIsFatal ==
    (StartupDone /\ ConnectedTargets = {}) =>
        /\ connections = <<>>
        /\ pc \in {"check", "stopped"}
        /\ pc = "stopped" =>
              /\ exit = "fatal"
              /\ LogLine("fatal_no_connections", 0, "") \in log
        /\ \A n \in 0..K : LogLine("listening", n, "") \notin log

\* C3 witness: two targets, both failed, and the process has stopped.
C3_Witness ==
    /\ pc = "stopped"
    /\ K = 2
    /\ ConnectedTargets = {}

\* C4: Connect() is called once per target, in input order, whatever happened
\* to the targets before; a target whose connect failed is not in the running
\* set and its failure is logged.
C4_EveryTargetAttempted ==
    /\ Len(connectLog) = (IF StartupDone THEN K
                          ELSE IF pc \in {"prepare", "connect"} THEN idx - 1
                          ELSE idx)
    /\ \A n \in DOMAIN connectLog : connectLog[n][1] = n
    /\ \A i \in Targets :
         ConnectFailedFor(i) =>
            /\ i \notin Range(connections)
            /\ ~InConnectWait(i) => LogLine("connect_failed", i, "") \in log

\* C4 witness: the first target failed to connect and the second connected.
C4_Witness ==
    /\ StartupDone
    /\ connectLog = <<<<1, "failed">>, <<2, "ok">>>>

\* C5: no file opened during startup is left open: the file of a target whose
\* connect failed is closed by the time that failure is recorded, and when the
\* process has stopped (fatal exit or normal shutdown) no file is open.
C5_FilesClosedOnEveryPath ==
    /\ \A i \in Targets :
         (ConnectFailedFor(i) /\ ~InConnectWait(i)) => outputFile[i] # "open"
    /\ pc = "stopped" => \A i \in Targets : outputFile[i] # "open"

\* C5 witness: the process has shut down normally, having closed the file of
\* a target that failed to connect and the file of a running session.
C5_Witness ==
    /\ pc = "stopped"
    /\ exit = "normal"
    /\ \E i, j \in Targets :
         /\ ConnectFailedFor(i) /\ outputFile[i] = "closed"
         /\ j \in Range(connections) /\ outputFile[j] = "closed"

\* C6: when main returns after the shutdown loop, every session of the running
\* set (so every session that was connected when the signal arrived) has been
\* disconnected and none of their files is open, whatever the callbacks did
\* meanwhile.
C6_ShutdownDisconnectsAndCloses ==
    (pc = "return" \/ (pc = "stopped" /\ exit = "normal")) =>
        \A i \in Range(connections) :
            /\ status[i] = "disconnected"
            /\ outputFile[i] # "open"

\* C6 witness: shutdown has ended for two sessions with files that never lost
\* their connection, so both were connected when the signal arrived.
C6_Witness ==
    /\ pc = "stopped"
    /\ exit = "normal"
    /\ Len(connections) = 2
    /\ \A i \in Range(connections) :
         /\ LogLine("connection_lost", i, "") \notin log
         /\ outputFile[i] = "closed"

\* C7: the shutdown loop takes the running sessions in the order they were
\* started; sessions before the current one are disconnected with their file
\* closed, sessions after it are untouched, and the current session is
\* disconnected before its file is closed.
C7_ShutdownInOrder ==
    InShutdown =>
        /\ RunningSetIs(Range(connections))
        /\ \A k \in DOMAIN connections :
             LET b == connections[k]
             IN  /\ k < idx => status[b] = "disconnected"
                               /\ outputFile[b] # "open"
                 /\ k > idx => status[b] \in {"connected", "lost"}
                               /\ outputFile[b] # "closed"
                 /\ k = idx =>
                      /\ outputFile[b] # "closed"
                      /\ pc = "sd_check" => status[b] \in {"connected", "lost"}
                      /\ pc = "sd_disc" => status[b] = "disconnecting"
                      /\ pc = "sd_close" => status[b] = "disconnected"

\* C7 witness: the second session is being disconnected after the first one's
\* file has been closed.
C7_Witness ==
    /\ pc = "sd_disc"
    /\ idx = 2
    /\ outputFile[connections[1]] = "closed"

\* C8 as stated: once Disconnect has returned for a session during shutdown
\* (its "disconnected" line is logged), no callback of that session takes a
\* step: none takes the mutex and formats, none writes to the console or to
\* the file.
C8_NoCallbackAfterDisconnect ==
    [][\A k \in DOMAIN connections :
          LogLine("disconnected", k, "") \in log =>
              cb'[connections[k]] = cb[connections[k]]]_vars

\* C9: after a successful connect, Subscribe is called once per topic filter
\* in configured order whatever the earlier subscribes returned, and the
\* session joins the running set even when subscribes failed.
C9_EveryTopicSubscribed ==
    \A i \in Targets :
        /\ (i = idx /\ pc = "subscribe") =>
              subLog[i] = SubSeq(brokers[i].Topics, 1, tix - 1)
        /\ (i = idx /\ pc = "subscribe_wait") =>
              subLog[i] = SubSeq(brokers[i].Topics, 1, tix)
        /\ (ConnectOk(i) /\ (Handled(i) \/ (i = idx /\ pc = "append"))) =>
              subLog[i] = brokers[i].Topics
        /\ (ConnectOk(i) /\ Handled(i)) => i \in Range(connections)
        /\ ~ConnectOk(i) => subLog[i] = <<>>

\* C9 witness: a running session with two topic filters whose first subscribe
\* failed.
C9_Witness ==
    /\ pc = "running"
    /\ \E i \in Range(connections) :
         /\ Len(brokers[i].Topics) = 2
         /\ LogLine("subscribe_failed", i, brokers[i].Topics[1]) \in log
         /\ subLog[i] = brokers[i].Topics

\* No other target names an output file: the lines about a directory or a
\* file in the log, which do not say the broker, are those of target i.
OnlyFileTarget(i) == \A j \in Targets \ {i} : brokers[j].OutputFile = <<>>

\* Target i has been through lines 95-141 and names an output file.
FileTried(i) == brokers[i].OutputFile # <<>> /\ status[i] # "none"

\* C10 as stated: when a target's file cannot be opened or its directory
\* cannot be made, the failure is logged and the session has no file.
C10_FailureLeavesNoFile ==
    \A i \in Targets :
        (/\ FileTried(i)
         /\ OnlyFileTarget(i)
         /\ OpenFailedLine(i) \in log \/ MkdirFailedLine(i) \in log) =>
            outputFile[i] = "nil"

\* C10 amended: a failure to open the file is logged and leaves the session
\* without a file; a failure to make the directory is logged and decides
\* nothing, the session has a file exactly when the open went through.  In
\* each case the connect is still attempted, a successful connect puts the
\* session in the running set, and the fatal exit is taken only when no
\* target connected.
C10_OpenFailureIsNotFatal ==
    /\ \A i \in Targets :
         /\ (FileTried(i) /\ outputFile[i] = "nil") =>
               /\ OpenFailedLine(i) \in log
               /\ (Handled(i)
                   \/ (i = idx /\ pc \in {"subscribe", "subscribe_wait",
                                           "append"})) =>
                     (ConnectOk(i) \/ ConnectFailedFor(i))
               /\ (ConnectOk(i) /\ Handled(i)) => i \in Range(connections)
         /\ FileTried(i) =>
               (outputFile[i] = "nil"
                  <=> LogLine("logging_to_file", i, PathOf(i)) \notin log)
         /\ (FileTried(i) /\ OnlyFileTarget(i)) =>
               (outputFile[i] = "nil" <=> OpenFailedLine(i) \in log)
    /\ exit = "fatal" => ConnectedTargets = {}

\* C10 witness: two running sessions that name a file; neither the directory
\* nor the file could be made for one, which runs without a file, and the
\* other has its file.
C10_Witness ==
    /\ pc = "running"
    /\ \E i, j \in Range(connections) :
         /\ FileTried(i) /\ FileTried(j)
         /\ OpenFailedLine(i) \in log
         /\ MkdirFailedLine(i) \in log
         /\ outputFile[i] = "nil"
         /\ outputFile[j] = "open"

\* C12: a client is built for a target only while it has none, so each target
\* gets at most one; and once a session exists, whether it has a file and the
\* path of that file never change.
C12_OneClientFixedSinks ==
    [][\A i \in Targets :
         /\ (pc = "prepare" /\ idx = i) => status[i] = "none"
         /\ status[i] # "none" =>
               /\ status'[i] # "none"
               /\ (outputFile'[i] = "nil") <=> (outputFile[i] = "nil")
               /\ outputPath'[i] = outputPath[i]]_vars

\* C12 witness: shutdown has ended with one session that kept its file and
\* one that ran without a file.
C12_Witness ==
    /\ pc = "stopped"
    /\ exit = "normal"
    /\ \E i, j \in Range(connections) :
         outputFile[i] = "closed" /\ outputFile[j] = "nil"

\* C14 as stated, for the line logged at shutdown: a "Broker n disconnected"
\* line names a session of the running set that has been disconnected, by the
\* number its other lines carry.
C14_DisconnectedLineNamesSession ==
    \A n \in Targets :
        LogLine("disconnected", n, "") \in log =>
            n \in Range(connections) /\ status[n] = "disconnected"

\* C16: of one session, at most one callback is between taking the mutex and
\* releasing it (console write and file write), and the mutex is held exactly
\* then.
C16_OneCallbackInCriticalSection ==
    \A i \in Targets :
        /\ cb[i].console + cb[i].file <= 1
        /\ mu[i] <=> (cb[i].console + cb[i].file = 1)

\* C16 witness: one callback is at the file write while another callback of
\* the same session waits for the mutex.
C16_Witness == \E i \in Targets : cb[i].file = 1 /\ cb[i].wait = 1

\* What C19 says formatMessage returns: "<topic> (<N> bytes)".
TopicAndLength(msg) ==
    msg.topic \o <<" ", "(">> \o Decimal(Len(msg.payload))
    \o <<" ", "b", "y", "t", "e", "s", ")">>

\* C19 as stated: with detailed mode off the result is "<topic> (<N> bytes)"
\* with nothing before or after it.
C19_ExactlyTopicAndLength ==
    (fmtOut # None /\ ~fmtMsg.detailed) => fmtOut = TopicAndLength(fmtMsg.msg)

\* C19 amended: with detailed mode off the result is the envelope sign, a
\* space and then "<topic> (<N> bytes)", nothing after it, and every message
\* with the same topic and payload length gives the same result.
C19_EnvelopeTopicAndLength ==
    (fmtOut # None /\ ~fmtMsg.detailed) =>
        /\ fmtOut = <<Envelope, " ">> \o TopicAndLength(fmtMsg.msg)
        /\ \A other \in Messages :
              (/\ other.topic = fmtMsg.msg.topic
               /\ Len(other.payload) = Len(fmtMsg.msg.payload))
              => formatMessage(other, FALSE) = fmtOut

\* C19 witness: a JSON object of ten bytes or more has been formatted with
\* detailed mode off.
C19_Witness ==
    /\ fmtOut # None
    /\ ~fmtMsg.detailed
    /\ Len(fmtMsg.msg.payload) > 9
    /\ Unmarshal(fmtMsg.msg.payload).ok

\* Messages of session i in the order of their console records, and in the
\* order of the WriteString calls on its file.
ConsoleOrder(i) ==
    LET mine(r) == r.broker = i
        recs == SelectSeq(console, mine)
    IN  [k \in DOMAIN recs |-> recs[k].msg]

FileOrder(i) == [k \in DOMAIN written[i] |-> written[i][k].msg]

IsPrefix(a, b) == Len(a) <= Len(b) /\ \A k \in DOMAIN a : a[k] = b[k]

\* C11 as stated: once a write to a session's file has failed, the failure
\* is in the log and the session writes to the console only, so the failed
\* write is the last one made on the file.
C11_WriteFailureLoggedAndFallsBack ==
    \A i \in Targets : \A k \in DOMAIN written[i] :
        ~written[i][k].ok =>
            /\ LogLine("write_failed", i, "") \in log
            /\ k = Len(written[i])

\* C15 as stated: on the console and in the file the messages of a session
\* stand in the order the transport delivered them, the n-th record being
\* that of message n.
C15_SinkOrderIsDeliveryOrder ==
    \A i \in Targets :
        /\ \A k \in DOMAIN ConsoleOrder(i) : ConsoleOrder(i)[k] = k
        /\ \A k \in DOMAIN FileOrder(i) : FileOrder(i)[k] = k

\* C15 amended: the file of a session holds its messages in the order the
\* console does, and that order is the delivery order as long as no two
\* callbacks of the session were in progress at once.
C15_SinksAgreeAndFollowSerialDelivery ==
    \A i \in Targets :
        /\ IsPrefix(FileOrder(i), ConsoleOrder(i))
        /\ ~overlap[i] =>
              \A k \in DOMAIN ConsoleOrder(i) : ConsoleOrder(i)[k] = k

\* C15 witness: three messages of a session with a file have been handled,
\* the first two by callbacks in progress together and written in delivery
\* order.
C15_Witness ==
    \E i \in Targets :
        /\ overlap[i]
        /\ ConsoleOrder(i) = <<1, 2, 3>>
        /\ FileOrder(i) = <<1, 2, 3>>

\* Console records and WriteString calls made for message n of session i.
ConsoleRecordsOf(i, n) ==
    {k \in DOMAIN console : console[k].broker = i /\ console[k].msg = n}

FileRecordsOf(i, n) == {k \in DOMAIN written[i] : written[i][k].msg = n}

\* WriteString calls for message n of session i that went through.
FileRecordsKept(i, n) == {k \in FileRecordsOf(i, n) : written[i][k].ok}

\* C20 as stated: a message whose callback has returned has exactly one
\* console record and, when the session has a file, exactly one record in
\* the file.
C20_ExactlyOneRecordPerSink ==
    \A i \in Targets : \A n \in DOMAIN delivered[i] :
        at[i][n] = "done" =>
            /\ Cardinality(ConsoleRecordsOf(i, n)) = 1
            /\ Cardinality(FileRecordsKept(i, n)) =
                  IF outputFile[i] = "nil" THEN 0 ELSE 1

\* C20 amended: no message gets more than one console record or more than
\* one write on the file; a message whose callback has returned has exactly
\* one console record and, when the session has a file, exactly one
\* WriteString call on it (none otherwise), which leaves at most one record
\* in the file; console and file get the same formatted message, which in
\* detailed mode, for a payload that is not JSON, ends with the payload as
\* it came.
C20_OneRecordPerSink ==
    \A i \in Targets : \A n \in DOMAIN delivered[i] :
        LET m == delivered[i][n]
            c == ConsoleRecordsOf(i, n)
            f == FileRecordsOf(i, n)
        IN  /\ Cardinality(c) <= 1
            /\ Cardinality(f) <= 1
            /\ f # {} => c # {}
            /\ at[i][n] = "done" =>
                  /\ Cardinality(c) = 1
                  /\ Cardinality(f) = IF outputFile[i] = "nil" THEN 0 ELSE 1
            /\ \A k \in c :
                  /\ detailed /\ ~Unmarshal(m.payload).ok =>
                        console[k].text = Header(m) \o <<"\n">> \o m.payload
                  /\ ~detailed => console[k].text = Header(m)
            /\ \A k \in f : \A j \in c : written[i][k].text = console[j].text

\* C20 witness: in detailed mode the callbacks of a session with a file have
\* returned for a payload that is not JSON, whose write went through, and
\* for one that is JSON, whose write failed.
C20_Witness ==
    /\ detailed
    /\ \E i \in Targets : \E n, o \in DOMAIN delivered[i] :
          /\ outputFile[i] # "nil"
          /\ at[i][n] = "done" /\ at[i][o] = "done"
          /\ ~Unmarshal(delivered[i][n].payload).ok
          /\ Unmarshal(delivered[i][o].payload).ok
          /\ FileRecordsKept(i, n) # {}
          /\ FileRecordsOf(i, o) # {} /\ FileRecordsKept(i, o) = {}

\* The file a path names, links aside: the path taken from the working
\* directory and cleaned.
FileOf(p) == IF IsAbs(p) THEN Clean(p) ELSE Clean(Cwd \o p)

\* The file a configured output_file value stands for: a bare file name is a
\* file of logs/, any other value is the path as given.
Named(p) ==
    IF ~IsAbs(p) /\ Len(Clean(p)) = 1
    THEN Clean(Cwd \o <<"logs">> \o p)
    ELSE FileOf(p)

\* Two configured output_file values stand for one file.
SameFile(p, q) == Named(p) = Named(q)

\* Sessions of the running set whose file is open.
Appending == {i \in Range(connections) : outputFile[i] = "open"}

\* C13 as stated: the files the running sessions append to are pairwise
\* distinct.
C13_FilesPairwiseDistinct ==
    \A i, j \in Appending :
        i # j => FileOf(outputPath[i]) # FileOf(outputPath[j])

\* C13 amended: two running sessions append under one path, taken from the
\* working directory and cleaned, when their configured output_file values
\* stand for one file, however the values are written, and under different
\* paths otherwise.
C13_FilesDistinctUnlessSameName ==
    \A i, j \in Appending :
        i # j => ((FileOf(outputPath[i]) = FileOf(outputPath[j]))
                    <=> SameFile(brokers[i].OutputFile, brokers[j].OutputFile))

\* C13 witness: callbacks of two running sessions are at the file write; the
\* two output_file values are written differently, the files were opened
\* under different path texts, and they are one file.
C13_Witness ==
    \E i, j \in Appending :
        /\ cb[i].file = 1 /\ cb[j].file = 1
        /\ brokers[i].OutputFile # brokers[j].OutputFile
        /\ outputPath[i] # outputPath[j]
        /\ FileOf(outputPath[i]) = FileOf(outputPath[j])

\* The file is the source of the configuration: it decodes and lists a broker.
FileUsed == configFile.kind = "json" /\ Len(configFile.brokers) > 0

\* The brokers of the loaded configuration are those of the file, in order,
\* with the defaults filled in and the topics trimmed.
BrokersFromFile ==
    /\ Len(cfg.Brokers) = Len(configFile.brokers)
    /\ \A n \in DOMAIN cfg.Brokers :
          LET b == cfg.Brokers[n]
              f == configFile.brokers[n]
          IN  /\ b.Broker = f.Broker
              /\ b.OutputFile = f.OutputFile
              /\ b.Port = IF f.Port = <<>> THEN Str1883 ELSE f.Port
              /\ IF f.Topics = <<>> THEN b.Topics = << <<"#">> >>
                 ELSE /\ Len(b.Topics) = Len(f.Topics)
                      /\ \A j \in DOMAIN b.Topics :
                            b.Topics[j] = TrimSpace(f.Topics[j])

\* C17 as stated: after loading, every target has a non-empty host, a port
\* and a non-empty topic list.
C17_EveryTargetComplete ==
    cfg # None =>
        \A n \in DOMAIN cfg.Brokers :
            /\ cfg.Brokers[n].Broker # <<>>
            /\ cfg.Brokers[n].Port # <<>>
            /\ cfg.Brokers[n].Topics # <<>>

\* C18 as stated: when the file is used, brokers and detailed flag are those
\* of the file (a flag the file does not give is off); otherwise the
\* configuration is the one read from the environment.
C18_OneSourceOnly ==
    cfg # None =>
        IF FileUsed
        THEN /\ BrokersFromFile
             /\ cfg.Detailed = (configFile.hasDetailed /\ configFile.detailed)
        ELSE cfg = loadConfigFromEnv

\* C18 amended: when the file is used the brokers are those of the file, and
\* the detailed flag is the file's when the file gives one and that of
\* DETAILED in the environment when it does not; otherwise the configuration
\* is the one read from the environment.
C18_BrokersFromOneSource ==
    cfg # None =>
        IF FileUsed
        THEN /\ BrokersFromFile
             /\ cfg.Detailed = IF configFile.hasDetailed
                               THEN configFile.detailed
                               ELSE env.DETAILED = StrTrue
        ELSE cfg = loadConfigFromEnv

\* C18 witness: the file is used and gives no detailed flag while the
\* environment sets DETAILED=true and a BROKER_1_HOST.
C18_Witness ==
    /\ cfg # None
    /\ FileUsed
    /\ ~configFile.hasDetailed
    /\ env.DETAILED = StrTrue
    /\ env.BROKER[1].HOST # <<>>

\* The orchestrator states, in order, and the one main is in.
Phases == <<"Init", "Starting", "Running", "ShuttingDown", "Stopped">>

Phase ==
    CASE pc = "start" -> "Init"
      [] pc \in {"prepare", "connect", "connect_wait", "subscribe",
                 "subscribe_wait", "append", "check"} -> "Starting"
      [] pc = "running" -> "Running"
      [] InShutdown \/ pc = "return" -> "ShuttingDown"
      [] pc = "stopped" -> "Stopped"

PhaseRank == CHOOSE n \in DOMAIN Phases : Phases[n] = Phase

\* C21: with at least one broker configured, every step leaves the
\* orchestrator state as it is or moves it to the next one, or from Starting
\* to Stopped while the running set is empty; Running is entered with a
\* non-empty running set and is left only by the step that logs the
\* shutdown, whatever the sessions' connections are.
C21_PhasesInOrder ==
    [][K >= 1 =>
         /\ \/ PhaseRank' = PhaseRank
            \/ PhaseRank' = PhaseRank + 1
            \/ Phase = "Starting" /\ Phase' = "Stopped" /\ connections = <<>>
         /\ (Phase # "Running" /\ Phase' = "Running") => Len(connections') >= 1
         /\ (Phase = "Running" /\ Phase' # "Running") =>
               /\ Phase' = "ShuttingDown"
               /\ LogLine("shutting_down", 0, "") \in log' \ log]_vars

\* C21 witness: main is shutting down after a run in which every session of
\* the running set had lost its connection.
C21_Witness ==
    /\ InShutdown
    /\ Len(connections) >= 1
    /\ \A i \in Range(connections) :
          LogLine("connection_lost", i, "") \in log /\ status[i] = "lost"

\* C22: neither the step in which a session's connection is lost nor the
\* step of the OnConnectionLost handler changes anything of main: no Connect
\* or Subscribe call, the same running set, files and position of main; the
\* handler adds its log line and the loss itself logs nothing; and once the
\* startup loop has ended no Connect or Subscribe call is made at all.
C22_ConnectionLostOnlyLogged ==
    [][/\ \A i \in Targets :
            /\ (status[i] = "connected" /\ status'[i] = "lost") =>
                  UNCHANGED <<log, connectLog, subLog, connections,
                              outputFile, outputPath, pc, idx, exit>>
            /\ (<<"lost", i>> \in handlers \ handlers') =>
                  /\ log' = log \cup {LogLine("connection_lost", i, "")}
                  /\ UNCHANGED <<connectLog, subLog, connections, outputFile,
                                 outputPath, pc, idx, exit>>
       /\ StartupDone => UNCHANGED <<connectLog, subLog>>]_vars

\* C22 witness: a session of the running set has lost its connection while
\* main waits for the signal.
C22_Witness ==
    /\ pc = "running"
    /\ \E i \in Range(connections) :
          status[i] = "lost" /\ LogLine("connection_lost", i, "") \in log

\* C23: with no broker configured, as soon as main has looked at the list the
\* process has exited through logger.Fatal with the "no brokers" line, and
\* nothing but the banner and that line was logged: no file was opened and
\* no Connect was called.
C23_NoBrokersIsFatalAtOnce ==
    (K = 0 /\ pc # "start") =>
        /\ pc = "stopped"
        /\ exit = "fatal"
        /\ log = {LogLine("configured", 0, ""),
                  LogLine("fatal_no_brokers", 0, "")}
        /\ connectLog = <<>>

\* C23 witness: the process has exited on an empty broker list.
C23_Witness == K = 0 /\ exit = "fatal"

\* C24: startup always finishes, whatever the targets and the transport do,
\* a broker that never answers a subscribe included: main eventually leaves
\* Init and Starting; and once main has left Running on the signal, the
\* process eventually reaches Stopped.
C24_StartupAndShutdownFinish ==
    /\ <>(Phase \in {"Running", "ShuttingDown", "Stopped"})
    /\ (Phase = "ShuttingDown") ~> (Phase = "Stopped")

\* C25 as stated: no step of any interleaving is a file write of a session
\* whose file has been closed, by the shutdown loop or after a failed
\* connect.
C25_NoWriteAfterClose ==
    [][\A i \in 1..MaxTargets :
          (i \in Targets /\ outputFile[i] = "closed") =>
              cb'[i].file >= cb[i].file]_vars

\* C26: a running session whose connection is up, after any number of losses
\* and automatic reconnections, is subscribed to every topic whose subscribe
\* succeeded at startup.
C26_SubscribedAgainAfterReconnect ==
    \A i \in Range(connections) :
       status[i] = "connected" =>
          \A t \in Range(brokers[i].Topics) :
             LogLine("subscribed", i, t) \in log => t \in subscribed[i]

\* C27: for a session with a file whose writes have all gone through, the
\* messages in the file are the first messages of the session on the console,
\* the console being ahead by one message exactly while a callback stands
\* between its console write and its file write, and level otherwise; a
\* message is never in the file before it is on the console.
C27_FileIsConsolePrefixByAtMostOne ==
    \A i \in Targets :
       (outputFile[i] # "nil" /\ \A k \in DOMAIN written[i] : written[i][k].ok)
       => /\ IsPrefix(FileOrder(i), ConsoleOrder(i))
          /\ Len(ConsoleOrder(i)) =
                Len(FileOrder(i)) + (IF cb[i].file > 0 THEN 1 ELSE 0)
          /\ cb[i].file <= 1
          /\ \A n \in DOMAIN at[i] :
                FileRecordsOf(i, n) # {} => ConsoleRecordsOf(i, n) # {}

\* C27 witness: a session with a file has had callbacks in progress together;
\* three of its messages are on the console, the first two of them in the
\* file, and the write of the third is about to be made.
C27_Witness ==
    \E i \in Targets :
        /\ outputFile[i] = "open"
        /\ overlap[i]
        /\ \A k \in DOMAIN written[i] : written[i][k].ok
        /\ Len(ConsoleOrder(i)) = 3
        /\ Len(FileOrder(i)) = 2
        /\ cb[i].file = 1

\* Hosts BROKER_1_HOST .. BROKER_n_HOST of the environment are all set.
HostsSetUpTo(n) == \A m \in 1..n : env.BROKER[m].HOST # <<>>

\* C28: the loaded configuration always lists a broker, so the check of
\* main.go 88 never fires; when the file is not used and BROKER_1_HOST is not
\* set it lists exactly the legacy broker, whose host is MQTT_BROKER or
\* "localhost"; when the file is not used and BROKER_1_HOST is set it lists
\* BROKER_1 .. BROKER_k in order, k being the largest number with all of
\* BROKER_1_HOST .. BROKER_k_HOST set.
C28_AlwaysABroker ==
    cfg # None =>
        /\ Len(cfg.Brokers) >= 1
        /\ (~FileUsed /\ env.BROKER[1].HOST = <<>>) =>
              /\ Len(cfg.Brokers) = 1
              /\ cfg.Brokers[1].Broker =
                    IF env.MQTT_BROKER # <<>> THEN env.MQTT_BROKER
                    ELSE <<"l", "o", "c", "a", "l", "h", "o", "s", "t">>
        /\ (~FileUsed /\ env.BROKER[1].HOST # <<>>) =>
              LET k == CHOOSE n \in 1..MaxEnvBrokers :
                          /\ HostsSetUpTo(n)
                          /\ \A m \in (n + 1)..MaxEnvBrokers : ~HostsSetUpTo(m)
              IN  /\ Len(cfg.Brokers) = k
                  /\ \A n \in 1..k :
                        /\ cfg.Brokers[n].Broker = env.BROKER[n].HOST
                        /\ cfg.Brokers[n].OutputFile = env.BROKER[n].OUTPUT_FILE
                        /\ cfg.Brokers[n].Port =
                              IF env.BROKER[n].PORT # <<>>
                              THEN env.BROKER[n].PORT ELSE Str1883

\* C28 witness: the file decodes and lists no broker; BROKER_1_HOST and
\* BROKER_3_HOST are set and BROKER_2_HOST is not; one broker is loaded.
C28_Witness ==
    /\ cfg # None
    /\ configFile.kind = "json"
    /\ configFile.brokers = <<>>
    /\ env.BROKER[1].HOST # <<>>
    /\ env.BROKER[2].HOST = <<>>
    /\ env.BROKER[3].HOST # <<>>
    /\ Len(cfg.Brokers) = 1

====
